---- MODULE Spec2Model ----
(***************************************************************************)
(* Verification model of the walkie-talkie firmware core.                  *)
(*                                                                         *)
(* Part 1: the audio ring buffer (core/audio_buffer.c, audio_buffer.h).    *)
(*   SpecRing  - the API called sequentially (init, write, write_frame,    *)
(*               read, peek, skip, clear).                                 *)
(*   SpecFifo  - writes and reads only, with the logs of what went in and  *)
(*               what came out.                                            *)
(*   SpecSPSC  - one writer task and one reader task, no lock, interleaved *)
(*               at the level of the individual loads and stores.          *)
(* Part 2: the dial manager (core/dial_manager.c, ESP32 build): the UI     *)
(*   task calling the API, the per-slot connection tasks, the manager      *)
(*   mutex.                                                                *)
(***************************************************************************)
EXTENDS Integers, Sequences, FiniteSets, TLC

\* ------------------------------------------------------------------------
\* Program constants
\* ------------------------------------------------------------------------
AUDIO_BUFFER_FRAMES == 32

UINT8 == 256

UINT16 == 65536

DIAL_POSITIONS == 15

MAX_DIAL_THREADS == 15

\* ------------------------------------------------------------------------
\* Bounds of the model
\* ------------------------------------------------------------------------
\* write / write_frame calls made on a ring that is streamed through (one
\* producer API, reads): enough to fill the ring and wrap the indices
MaxWrites == 34

\* write / write_frame calls on a ring on which the whole API is exercised
MaxMixed == 3

\* audio_buffer_clear / audio_buffer_init calls on a ring in use
MaxClears == 1

\* dial positions the UI saves, clears, connects and disconnects: 0 .. MaxPos - 1
MaxPos == 2

\* calls of the dial manager API the UI task makes in a run
MaxCalls == 3

\* dial_manager_connect calls in a run that fills the thread table
MaxFillCalls == 16

\* the first calls of such a run, which may connect slot 0 again
MaxRepeats == 2

VARIABLES
  \* audio_ring_buffer_t
  frames, write_idx, read_idx, next_sequence,
  \* the caller's side of the ring API: the output frame of read/peek, the
  \* last call and its return value
  out, ret, lastOp,
  \* who feeds the ring: "capture" (audio_buffer_write), "rx"
  \* (audio_buffer_write_frame) or "mixed" (every call of the API, short runs)
  plan,
  \* payloads handed out so far; clear/init calls so far
  tick, nClears,
  \* history: frames accepted by a write, frames returned by read, frames
  \* consumed by read or skip
  writeLog, readLog, gone,
  \* SPSC tasks: program counters and locals of the writer and the reader
  wpc, w_in, w_next, rpc,
  \* dial_manager_t: the slots (configuration, state, audio flag), the task
  \* each slot's task_handle refers to ("NULL" or where that task stands),
  \* the cursor, the thread count, the holder of the mutex
  slots, task_handle, current_position, active_threads, mutex,
  \* connection tasks no task_handle refers to, per slot and place; the
  \* thread count loaded by the task that is cleaning up
  orphans, t_loaded,
  \* the UI task: where it stands, the call in progress and its argument,
  \* the last return value, loop index, loaded thread count, whether
  \* disconnect runs for disconnect_all, whether set_active_audio was
  \* called by set_position
  ui_pc, ui_op, ui_pos, ui_ret, ui_i, ui_loaded, ui_all, ui_nested,
  \* history: calls of the API made so far; dial_manager_connect calls on
  \* a configured slot that was not CONNECTED that returned true so far
  calls, connects_ok,
  \* two devices: device_context_t (g_device_ctx) of each, the state of its
  \* audio driver (g_state), its g_is_transmitting
  ctx, audio_state, is_transmitting,
  \* packets on the air; history: packets sent and buttons pressed so far
  air, sends, presses,
  \* the framing codec: the arguments of the last protocol_build_packet, the
  \* bytes it wrote and the length it returned; the buffer last handed to
  \* protocol_parse_packet or protocol_handle_received, the result of the
  \* parse, the calls of the message callback and the packets sent by the
  \* handler so far, the last call
  p_args, p_pkt, p_len, p_rx, p_parsed, p_calls, p_sent, p_op,
  \* the send path: where each sending task stands and how many packets it
  \* has started; g_tx_buffer of protocol.c; g_mutex and g_state of radio.c;
  \* the FIFO of the modem and the frame it is transmitting; history: the
  \* frames each task wrote to the FIFO, the transmissions that were cut
  tx_pc, tx_n, g_tx_buffer, g_mutex, g_state, fifo, on_air, handed, cut,
  \* g_jitter_depth of audio_buffer.c
  g_jitter_depth,
  \* identity: what the NVS namespace "device_id" holds; g_device_id and
  \* g_initialized of device_id.c; g_device_ctx.device_id; g_local_device_id of
  \* protocol.c; the last call and the calls made so far
  nvs_id, g_device_id, id_initialized, ctx_device_id, g_local_device_id, id_op, id_calls,
  \* one security_context_t and its security_stats_t; the last call, its
  \* result and the packet it was given; history: the nonces encrypt used,
  \* the packets decrypt accepted, the calls made
  sec_ctx, sec_stats, sec_op, sec_ret, sec_rx, sec_nonces, sec_accepted, sec_calls,
  \* one call of audio_buffer_sequence_gap: its arguments and what it returned
  gap_expected, gap_received, gap_ret,
  \* write_idx and read_idx of g_record_buffer, the other ring of main.c
  rec_write_idx, rec_read_idx,
  \* audio.c on one device: g_state, what capture and playback are bound to
  \* (g_record_buffer or g_capture_callback, g_playback_buffer); history: the
  \* calls made so far
  hal_state, hal_capture, hal_playback, hal_log,
  \* authentication tokens: the token device_id_create_auth_token wrote last;
  \* the last call of the token API, the arguments of the last verification
  \* and the value the last call returned
  tok_buffer, tok_op, tok_arg, tok_ret,
  \* voice from device A to device B: g_voice_sequence of A's protocol.c; the
  \* static that A's build placed behind g_tx_buffer; what the stack of the
  \* capture task holds where voice_data_t comes to lie; history: the sequence
  \* numbers of the packets sent; the packet on the way to B (who sent it, the
  \* bytes built, the length handed to radio_send, the audio it was made of);
  \* what B's last protocol_handle_received found and did
  g_voice_sequence, v_behind, v_fill, v_seqs, v_air, v_rx,
  \* transmission of voice (main.c, buttons.c): g_is_transmitting, is_connected
  \* and is_muted of g_device_ctx, the slide switch, the PTT button; where the
  \* audio task is in on_audio_captured; history: is_muted and is_connected at
  \* the moment of each protocol_send_voice
  g_is_transmitting, ctx_is_connected, ctx_is_muted, current_talk_mode, ptt_pressed, capture_pc, talk_sent

ringVars == <<frames, write_idx, read_idx, next_sequence, out, ret, lastOp,
              plan, tick, nClears, writeLog, readLog, gone>>

spscVars == <<wpc, w_in, w_next, rpc>>

dmVars == <<slots, task_handle, current_position, active_threads, mutex>>

taskVars == <<orphans, t_loaded>>

uiVars == <<ui_pc, ui_op, ui_pos, ui_ret, ui_i, ui_loaded, ui_all, ui_nested>>

ghostVars == <<calls, connects_ok>>

dialVars == <<dmVars, taskVars, uiVars, ghostVars>>

callVars == <<ctx, audio_state, is_transmitting, air, sends, presses>>

protoVars == <<p_args, p_pkt, p_len, p_rx, p_parsed, p_calls, p_sent, p_op>>

radioVars == <<tx_pc, tx_n, g_tx_buffer, g_mutex, g_state, fifo, on_air, handed, cut>>

jitVars == <<g_jitter_depth>>

idVars == <<nvs_id, g_device_id, id_initialized, ctx_device_id, g_local_device_id, id_op, id_calls>>

secVars == <<sec_ctx, sec_stats, sec_op, sec_ret, sec_rx, sec_nonces, sec_accepted, sec_calls>>

gapVars == <<gap_expected, gap_received, gap_ret>>

recVars == <<rec_write_idx, rec_read_idx>>

halVars == <<hal_state, hal_capture, hal_playback, hal_log>>

tokVars == <<tok_buffer, tok_op, tok_arg, tok_ret>>

voiceVars == <<g_voice_sequence, v_behind, v_fill, v_seqs, v_air, v_rx>>

talkVars == <<g_is_transmitting, ctx_is_connected, ctx_is_muted, current_talk_mode, ptt_pressed, capture_pc, talk_sent>>

lateVars == <<gapVars, recVars, halVars, tokVars, voiceVars, talkVars>>

restVars == <<radioVars, jitVars, idVars, secVars, lateVars>>

appVars == <<callVars, protoVars, restVars>>

\* ------------------------------------------------------------------------
\* audio_frame_t, as far as the ring handles it: the sequence number, the
\* payload (timestamp, length and samples travel together and are copied
\* together) and the validity flag.
\* ------------------------------------------------------------------------
Frame(seq, samples, valid) == [sequence |-> seq, samples |-> samples, valid |-> valid]

\* memset(buffer, 0, sizeof(audio_ring_buffer_t))
ZeroFrame == Frame(0, 0, FALSE)

Slots == 0 .. (AUDIO_BUFFER_FRAMES - 1)

NextIdxNoWrap(idx) == (idx + 1) % UINT8

\* (idx + 1) % AUDIO_BUFFER_FRAMES, stored back into a uint8_t
NextIdx(idx) == ((idx + 1) % AUDIO_BUFFER_FRAMES) % UINT8

EmptyNever(w, r) == FALSE

\* buffer->write_idx == buffer->read_idx
EmptyAt(w, r) == w = r

FullNever(w, r) == FALSE

\* next_write == buffer->read_idx, next_write = (write_idx + 1) % AUDIO_BUFFER_FRAMES
FullAt(w, r) == NextIdx(w) = r

audio_buffer_is_empty == EmptyAt(write_idx, read_idx)

audio_buffer_is_full == NextIdx(write_idx) = read_idx

audio_buffer_count ==
  IF write_idx >= read_idx
    THEN (write_idx - read_idx) % UINT8
    ELSE (AUDIO_BUFFER_FRAMES - read_idx + write_idx) % UINT8

\* for (i...) frames[i].valid = false
InvalidateAll(fs) == [i \in DOMAIN fs |-> [fs[i] EXCEPT !.valid = FALSE]]

RingInit ==
  /\ frames = [i \in Slots |-> ZeroFrame]
  /\ write_idx = 0
  /\ read_idx = 0
  /\ next_sequence = 0
  /\ out = ZeroFrame
  /\ ret = FALSE
  /\ lastOp = "init"
  /\ tick = 0
  /\ nClears = 0
  /\ writeLog = <<>>
  /\ readLog = <<>>
  /\ gone = {}

SpscIdle ==
  /\ wpc = "idle"
  /\ w_in = ZeroFrame
  /\ w_next = 0
  /\ rpc = "idle"

\* a call of the ring API leaves the tasks of the other parts alone
ApiCall == UNCHANGED <<spscVars, dialVars, appVars>>

WriteBudget == IF plan = "mixed" THEN MaxMixed ELSE MaxWrites

\* ------------------------------------------------------------------------
\* The ring API, one call per step.  Callers pass a ring and non-null
\* sample/frame pointers: the null guards at the head of each function
\* return without touching anything.
\* ------------------------------------------------------------------------
audio_buffer_init ==
  /\ ApiCall
  /\ plan = "mixed"
  /\ nClears < MaxClears
  /\ nClears' = nClears + 1
  /\ frames' = [i \in Slots |-> ZeroFrame]
  /\ write_idx' = 0
  /\ read_idx' = 0
  /\ next_sequence' = 0
  /\ lastOp' = "init"
  /\ UNCHANGED <<out, ret, plan, tick, writeLog, readLog, gone>>

audio_buffer_clear ==
  /\ ApiCall
  /\ plan = "mixed"
  /\ nClears < MaxClears
  /\ nClears' = nClears + 1
  /\ write_idx' = 0
  /\ read_idx' = 0
  /\ frames' = InvalidateAll(frames)
  /\ lastOp' = "clear"
  /\ UNCHANGED <<next_sequence, out, ret, plan, tick, writeLog, readLog, gone>>

WriteStoreNextSlot(fs, idx, f) ==
  [fs EXCEPT ![(idx + 1) % AUDIO_BUFFER_FRAMES] = [f EXCEPT !.valid = TRUE]]

\* frames[idx] after the fill: the given fields, valid = true
WriteStore(fs, idx, f) == [fs EXCEPT ![idx] = [f EXCEPT !.valid = TRUE]]

\* the part of write and write_frame behind the full check
WriteCommit(f) ==
  /\ frames' = WriteStore(frames, write_idx, f)
  /\ write_idx' = NextIdx(write_idx)
  /\ writeLog' = Append(writeLog, [f EXCEPT !.valid = TRUE])
  /\ ret' = TRUE

WriteDrop ==
  /\ ret' = FALSE
  /\ UNCHANGED <<frames, write_idx, writeLog>>

audio_buffer_write(samples) ==
  /\ ApiCall
  /\ plan \in {"capture", "mixed"}
  /\ tick < WriteBudget
  /\ tick' = tick + 1
  /\ lastOp' = "write"
  /\ IF FullAt(write_idx, read_idx)
       THEN WriteDrop /\ UNCHANGED next_sequence
       ELSE /\ WriteCommit(Frame(next_sequence, samples, TRUE))
            /\ next_sequence' = (next_sequence + 1) % UINT16
  /\ UNCHANGED <<read_idx, out, plan, nClears, readLog, gone>>

audio_buffer_write_frame(frame) ==
  /\ ApiCall
  /\ plan \in {"rx", "mixed"}
  /\ tick < WriteBudget
  /\ tick' = tick + 1
  /\ lastOp' = "write_frame"
  /\ IF FullAt(write_idx, read_idx)
       THEN WriteDrop
       ELSE WriteCommit(frame)
  /\ UNCHANGED <<read_idx, next_sequence, out, plan, nClears, readLog, gone>>

\* the frame a read or a skip consumes: invalidated, read index advanced
Consume ==
  /\ frames' = [frames EXCEPT ![read_idx].valid = FALSE]
  /\ read_idx' = NextIdx(read_idx)
  /\ gone' = gone \cup {frames[read_idx]}

audio_buffer_read ==
  /\ ApiCall
  /\ lastOp' = "read"
  /\ IF EmptyAt(write_idx, read_idx)
       THEN /\ ret' = FALSE
            /\ UNCHANGED <<frames, read_idx, out, readLog, gone>>
       ELSE /\ out' = frames[read_idx]
            /\ Consume
            /\ readLog' = Append(readLog, frames[read_idx])
            /\ ret' = TRUE
  /\ UNCHANGED <<write_idx, next_sequence, plan, tick, nClears, writeLog>>

audio_buffer_peek ==
  /\ ApiCall
  /\ plan = "mixed"
  /\ lastOp' = "peek"
  /\ IF EmptyAt(write_idx, read_idx)
       THEN ret' = FALSE /\ UNCHANGED out
       ELSE out' = frames[read_idx] /\ ret' = TRUE
  /\ UNCHANGED <<frames, write_idx, read_idx, next_sequence, plan, tick,
                 nClears, writeLog, readLog, gone>>

audio_buffer_skip ==
  /\ ApiCall
  /\ plan = "mixed"
  /\ lastOp' = "skip"
  /\ IF EmptyAt(write_idx, read_idx)
       THEN ret' = FALSE /\ UNCHANGED <<frames, read_idx, gone>>
       ELSE Consume /\ ret' = TRUE
  /\ UNCHANGED <<write_idx, next_sequence, out, plan, tick, nClears,
                 writeLog, readLog>>

\* the frame a caller hands to write_frame: a fresh payload; the peer's
\* sequence number follows the payload on a streamed ring and is one of two
\* values when the whole API is exercised; the valid field is set or not
InFrames ==
  {Frame(s, tick + 1, v) :
     s \in (IF plan = "mixed" THEN {tick + 1, UINT16 - 1} ELSE {tick + 1}),
     v \in BOOLEAN}

NextRing ==
  \/ audio_buffer_init
  \/ audio_buffer_clear
  \/ audio_buffer_write(tick + 1)
  \/ \E f \in InFrames : audio_buffer_write_frame(f)
  \/ audio_buffer_read
  \/ audio_buffer_peek
  \/ audio_buffer_skip

NextFifo ==
  \/ audio_buffer_write(tick + 1)
  \/ \E f \in InFrames : audio_buffer_write_frame(f)
  \/ audio_buffer_read

\* ------------------------------------------------------------------------
\* One writer task and one reader task on the same ring, no lock.  Every
\* step is one load or one store of shared memory; the fields of a frame
\* are stored and loaded one after the other (memcpy is not atomic).
\* ------------------------------------------------------------------------
WriterOrderEarlyPublish(pc) ==
  CASE pc = "call"    -> "pub"
    [] pc = "pub"     -> "seq"
    [] pc = "seq"     -> "data"
    [] pc = "data"    -> IF plan = "rx" THEN "cpvalid" ELSE "valid"
    [] pc = "cpvalid" -> "valid"
    [] pc = "valid"   -> "idle"

\* the stores of the writer behind the full check, in program order: the
\* fields of the frame, valid = true, and only then the write index
WriterOrder(pc) ==
  CASE pc = "call"    -> "seq"
    [] pc = "seq"     -> "data"
    [] pc = "data"    -> IF plan = "rx" THEN "cpvalid" ELSE "valid"
    [] pc = "cpvalid" -> "valid"
    [] pc = "valid"   -> "pub"
    [] pc = "pub"     -> "idle"

\* the slot the writer fills, frames[write_idx] of the call: the one before
\* next_write
WSlot == (w_next + AUDIO_BUFFER_FRAMES - 1) % AUDIO_BUFFER_FRAMES

\* audio_buffer_write / audio_buffer_write_frame up to the full check: the
\* one load of the reader's index
W_call(frame) ==
  /\ wpc = "idle"
  /\ tick < MaxWrites
  /\ tick' = tick + 1
  /\ w_in' = IF plan = "capture" THEN [frame EXCEPT !.sequence = next_sequence]
                                   ELSE frame
  /\ w_next' = NextIdx(write_idx)
  /\ wpc' = IF FullAt(write_idx, read_idx) THEN "idle" ELSE WriterOrder("call")
  /\ UNCHANGED <<frames, write_idx, read_idx, next_sequence, out, ret, lastOp,
                 plan, nClears, writeLog, readLog, gone, rpc>>

\* frame->sequence = buffer->next_sequence++ (write); first part of the
\* memcpy (write_frame)
W_seq ==
  /\ wpc = "seq"
  /\ frames' = [frames EXCEPT ![WSlot].sequence = w_in.sequence]
  /\ next_sequence' = IF plan = "capture" THEN (next_sequence + 1) % UINT16
                                           ELSE next_sequence
  /\ wpc' = WriterOrder(wpc)
  /\ UNCHANGED <<write_idx, read_idx, out, ret, lastOp, plan, tick, nClears,
                 writeLog, readLog, gone, w_in, w_next, rpc>>

\* memcpy of timestamp, length and samples
W_data ==
  /\ wpc = "data"
  /\ frames' = [frames EXCEPT ![WSlot].samples = w_in.samples]
  /\ wpc' = WriterOrder(wpc)
  /\ UNCHANGED <<write_idx, read_idx, next_sequence, out, ret, lastOp, plan,
                 tick, nClears, writeLog, readLog, gone, w_in, w_next, rpc>>

\* write_frame: the memcpy ends with the valid field of the given frame
W_cpvalid ==
  /\ wpc = "cpvalid"
  /\ frames' = [frames EXCEPT ![WSlot].valid = w_in.valid]
  /\ wpc' = WriterOrder(wpc)
  /\ UNCHANGED <<write_idx, read_idx, next_sequence, out, ret, lastOp, plan,
                 tick, nClears, writeLog, readLog, gone, w_in, w_next, rpc>>

\* frame->valid = true
W_valid ==
  /\ wpc = "valid"
  /\ frames' = [frames EXCEPT ![WSlot].valid = TRUE]
  /\ wpc' = WriterOrder(wpc)
  /\ UNCHANGED <<write_idx, read_idx, next_sequence, out, ret, lastOp, plan,
                 tick, nClears, writeLog, readLog, gone, w_in, w_next, rpc>>

\* buffer->write_idx = next_write; return true
W_pub ==
  /\ wpc = "pub"
  /\ write_idx' = w_next
  /\ writeLog' = Append(writeLog, [w_in EXCEPT !.valid = TRUE])
  /\ wpc' = WriterOrder(wpc)
  /\ UNCHANGED <<frames, read_idx, next_sequence, out, ret, lastOp, plan,
                 tick, nClears, readLog, gone, w_in, w_next, rpc>>

\* audio_buffer_read up to the empty check: the one load of the writer's index
R_call ==
  /\ rpc = "idle"
  /\ lastOp' = "read"
  /\ IF EmptyAt(write_idx, read_idx)
       THEN ret' = FALSE /\ rpc' = "idle"
       ELSE ret' = ret /\ rpc' = "seq"
  /\ UNCHANGED <<frames, write_idx, read_idx, next_sequence, out, plan, tick,
                 nClears, writeLog, readLog, gone, wpc, w_in, w_next>>

\* memcpy(frame, &buffer->frames[read_idx], sizeof(audio_frame_t)), in parts
R_seq ==
  /\ rpc = "seq"
  /\ out' = [out EXCEPT !.sequence = frames[read_idx].sequence]
  /\ rpc' = "data"
  /\ UNCHANGED <<frames, write_idx, read_idx, next_sequence, ret, lastOp, plan,
                 tick, nClears, writeLog, readLog, gone, wpc, w_in, w_next>>

R_data ==
  /\ rpc = "data"
  /\ out' = [out EXCEPT !.samples = frames[read_idx].samples]
  /\ rpc' = "valid"
  /\ UNCHANGED <<frames, write_idx, read_idx, next_sequence, ret, lastOp, plan,
                 tick, nClears, writeLog, readLog, gone, wpc, w_in, w_next>>

R_valid ==
  /\ rpc = "valid"
  /\ out' = [out EXCEPT !.valid = frames[read_idx].valid]
  /\ rpc' = "inval"
  /\ UNCHANGED <<frames, write_idx, read_idx, next_sequence, ret, lastOp, plan,
                 tick, nClears, writeLog, readLog, gone, wpc, w_in, w_next>>

\* buffer->frames[read_idx].valid = false
R_inval ==
  /\ rpc = "inval"
  /\ frames' = [frames EXCEPT ![read_idx].valid = FALSE]
  /\ rpc' = "adv"
  /\ UNCHANGED <<write_idx, read_idx, next_sequence, out, ret, lastOp, plan,
                 tick, nClears, writeLog, readLog, gone, wpc, w_in, w_next>>

\* buffer->read_idx = (read_idx + 1) % AUDIO_BUFFER_FRAMES; return true
R_adv ==
  /\ rpc = "adv"
  /\ read_idx' = NextIdx(read_idx)
  /\ ret' = TRUE
  /\ readLog' = Append(readLog, out)
  /\ gone' = gone \cup {out}
  /\ rpc' = "idle"
  /\ UNCHANGED <<frames, write_idx, next_sequence, out, lastOp, plan, tick,
                 nClears, writeLog, wpc, w_in, w_next>>

NextSPSC ==
  \/ (\E f \in InFrames : W_call(f)) /\ UNCHANGED <<dialVars, appVars>>
  \/ W_seq /\ UNCHANGED <<dialVars, appVars>>
  \/ W_data /\ UNCHANGED <<dialVars, appVars>>
  \/ W_cpvalid /\ UNCHANGED <<dialVars, appVars>>
  \/ W_valid /\ UNCHANGED <<dialVars, appVars>>
  \/ W_pub /\ UNCHANGED <<dialVars, appVars>>
  \/ R_call /\ UNCHANGED <<dialVars, appVars>>
  \/ R_seq /\ UNCHANGED <<dialVars, appVars>>
  \/ R_data /\ UNCHANGED <<dialVars, appVars>>
  \/ R_valid /\ UNCHANGED <<dialVars, appVars>>
  \/ R_inval /\ UNCHANGED <<dialVars, appVars>>
  \/ R_adv /\ UNCHANGED <<dialVars, appVars>>

\* ------------------------------------------------------------------------
\* The dial manager, ESP32 build: the UI task calls the API, every
\* connected slot has a connection task, one mutex.  Steps are as fine as
\* the interleaving of the UI task with the connection tasks needs: code a
\* task runs while it holds the mutex is one step unless another task reads
\* what it writes without the mutex.
\* ------------------------------------------------------------------------
Positions == 0 .. (DIAL_POSITIONS - 1)

Pos == 0 .. (MaxPos - 1)

\* where a connection task stands in dial_connection_task: before the first
\* xSemaphoreTake, holding the mutex to set CONNECTED, in the main loop,
\* before the second xSemaphoreTake, holding the mutex to clean up (before
\* and after it loaded active_threads)
WorkerPcs == {"start", "crit1", "loop", "exit", "crit2", "crit2s"}

\* memset(dm->slots, 0, sizeof(dm->slots)) and the loop of dial_manager_init
EmptySlot == [is_configured |-> FALSE, state |-> "EMPTY", is_active_audio |-> FALSE]

\* a slot dial_manager_load_from_nvs found in storage
LoadedSlot == [is_configured |-> TRUE, state |-> "SAVED", is_active_audio |-> FALSE]

NoOrphans == [pc \in WorkerPcs |-> 0]

\* dial_manager_init, with the set of slots found in storage
DialBoot(nvs) ==
  /\ slots = [i \in Positions |-> IF i \in nvs THEN LoadedSlot ELSE EmptySlot]
  /\ task_handle = [i \in Positions |-> "NULL"]
  /\ current_position = 0
  /\ active_threads = 0
  /\ mutex = "free"
  /\ orphans = [i \in Positions |-> NoOrphans]
  /\ t_loaded = 0
  /\ ui_pc = "idle"
  /\ ui_op = "init"
  /\ ui_pos = 0
  /\ ui_ret = FALSE
  /\ ui_i = 0
  /\ ui_loaded = 0
  /\ ui_all = FALSE
  /\ ui_nested = FALSE
  /\ calls = 0
  /\ connects_ok = 0

RECURSIVE SumOver(_, _)
SumOver(f, S) ==
  IF S = {} THEN 0
  ELSE LET x == CHOOSE y \in S : TRUE IN f[x] + SumOver(f, S \ {x})

\* connection tasks alive: the ones task handles refer to and the others
TasksOf(p) == (IF task_handle[p] = "NULL" THEN 0 ELSE 1) + SumOver(orphans[p], WorkerPcs)

LiveTasks == SumOver([p \in Positions |-> TasksOf(p)], Positions)

\* a step of the dial manager leaves the ring alone
DialStep == UNCHANGED <<ringVars, spscVars, appVars>>

\* ---- connection tasks (dial_connection_task) ----
\* who: the task slot p's task_handle refers to, or one it does not
TaskAt(p, who, pc) ==
  IF who = "handle" THEN task_handle[p] = pc ELSE orphans[p][pc] > 0

TaskGoto(p, who, from, to) ==
  IF who = "handle"
    THEN /\ task_handle' = [task_handle EXCEPT ![p] = to]
         /\ orphans' = orphans
    ELSE /\ orphans' = [orphans EXCEPT ![p] = [@ EXCEPT ![from] = @ - 1, ![to] = @ + 1]]
         /\ task_handle' = task_handle

\* where xSemaphoreTake leads: into the section that sets CONNECTED, or into
\* the clean-up
TakeThen(pc) == IF pc = "start" THEN "crit1" ELSE "crit2"

\* xSemaphoreTake(dm->mutex, portMAX_DELAY), after the request was sent and
\* the delay has passed, or after the main loop was left
T_take(p, who) ==
  /\ DialStep
  /\ mutex = "free"
  /\ \E pc \in {"start", "exit"} :
       /\ TaskAt(p, who, pc)
       /\ TaskGoto(p, who, pc, TakeThen(pc))
  /\ mutex' = "worker"
  /\ UNCHANGED <<slots, current_position, active_threads, t_loaded, uiVars, ghostVars>>

\* slot->state = DIAL_SLOT_CONNECTED; xSemaphoreGive
T_connected(p, who) ==
  /\ DialStep
  /\ TaskAt(p, who, "crit1")
  /\ TaskGoto(p, who, "crit1", "loop")
  /\ slots' = [slots EXCEPT ![p].state = "CONNECTED"]
  /\ mutex' = "free"
  /\ UNCHANGED <<current_position, active_threads, t_loaded, uiVars, ghostVars>>

\* while (slot->state == DIAL_SLOT_CONNECTED): the loop is left
T_loop(p, who) ==
  /\ DialStep
  /\ TaskAt(p, who, "loop")
  /\ slots[p].state # "CONNECTED"
  /\ TaskGoto(p, who, "loop", "exit")
  /\ UNCHANGED <<slots, current_position, active_threads, mutex, t_loaded, uiVars, ghostVars>>

\* slot->task_handle = NULL; active_threads is loaded.  The task is no longer
\* referred to by the handle; a task the handle did refer to is not either.
T_cleanup_load(p, who) ==
  /\ DialStep
  /\ TaskAt(p, who, "crit2")
  /\ task_handle' = [task_handle EXCEPT ![p] = "NULL"]
  /\ orphans' =
       IF who = "handle"
         THEN [orphans EXCEPT ![p] = [@ EXCEPT !["crit2s"] = @ + 1]]
         ELSE LET o1 == [orphans[p] EXCEPT !["crit2"] = @ - 1, !["crit2s"] = @ + 1]
                  o2 == IF task_handle[p] = "NULL" THEN o1
                        ELSE [o1 EXCEPT ![task_handle[p]] = @ + 1]
              IN [orphans EXCEPT ![p] = o2]
  /\ t_loaded' = active_threads
  /\ UNCHANGED <<slots, current_position, active_threads, mutex, uiVars, ghostVars>>

\* if (active_threads > 0) active_threads--; xSemaphoreGive; vTaskDelete(NULL)
T_cleanup_store(p) ==
  /\ DialStep
  /\ orphans[p]["crit2s"] > 0
  /\ orphans' = [orphans EXCEPT ![p] = [@ EXCEPT !["crit2s"] = @ - 1]]
  /\ active_threads' = IF t_loaded > 0 THEN t_loaded - 1 ELSE active_threads
  /\ mutex' = "free"
  /\ t_loaded' = 0
  /\ UNCHANGED <<slots, task_handle, current_position, uiVars, ghostVars>>

\* ---- the UI task ----
UiReturn(r) ==
  /\ ui_ret' = r
  /\ ui_pc' = "idle"

\* a call that starts with xSemaphoreTake
UiLockedCall(op, p) ==
  /\ ui_pc = "idle"
  /\ ui_op' = op
  /\ ui_pos' = p
  /\ ui_pc' = "take"
  /\ ui_all' = FALSE
  /\ ui_nested' = FALSE
  /\ calls' = calls + 1
  /\ UNCHANGED <<dmVars, taskVars, ui_ret, ui_i, ui_loaded, connects_ok>>

\* xSemaphoreTake(dm->mutex, portMAX_DELAY) by the UI task: returns once the
\* mutex is free (never, when the UI task holds it itself)
UI_take ==
  /\ DialStep
  /\ ui_pc = "take"
  /\ mutex = "free"
  /\ mutex' = "ui"
  /\ ui_pc' = IF ui_nested \/ ui_op = "set_active_audio" THEN "audio" ELSE "body"
  /\ ui_i' = 0
  /\ UNCHANGED <<slots, task_handle, current_position, active_threads, taskVars,
                 ui_op, ui_pos, ui_ret, ui_loaded, ui_all, ui_nested, ghostVars>>

\* dm->active_threads >= MAX_DIAL_THREADS
ConnectLimit(n) == n >= MAX_DIAL_THREADS

\* dial_manager_connect up to the call of create_connection_thread
UI_connect(p) ==
  /\ DialStep
  /\ ui_pc = "idle"
  /\ ui_op' = "connect"
  /\ ui_pos' = p
  /\ ui_all' = FALSE
  /\ ui_nested' = FALSE
  /\ calls' = calls + 1
  /\ IF ~slots[p].is_configured THEN UiReturn(FALSE)
     ELSE IF slots[p].state = "CONNECTED" THEN UiReturn(TRUE)
     ELSE IF ConnectLimit(active_threads) THEN UiReturn(FALSE)
     ELSE ui_pc' = "take" /\ UNCHANGED ui_ret
  /\ UNCHANGED <<dmVars, taskVars, ui_i, ui_loaded, connects_ok>>

\* create_connection_thread behind the take; created tells whether
\* xTaskCreate returned pdPASS
UI_create(created) ==
  /\ DialStep
  /\ ui_pc = "body"
  /\ ui_op = "connect"
  /\ IF created
       THEN /\ slots' = [slots EXCEPT ![ui_pos].state = "CONNECTING"]
            /\ task_handle' = [task_handle EXCEPT ![ui_pos] = "start"]
            /\ orphans' = IF task_handle[ui_pos] = "NULL" THEN orphans
                          ELSE [orphans EXCEPT ![ui_pos] =
                                  [@ EXCEPT ![task_handle[ui_pos]] = @ + 1]]
            /\ active_threads' = (active_threads + 1) % UINT8
            /\ connects_ok' = connects_ok + 1
            /\ UiReturn(TRUE)
       ELSE /\ slots' = [slots EXCEPT ![ui_pos].state = "ERROR"]
            /\ UNCHANGED <<task_handle, orphans, active_threads, connects_ok>>
            /\ UiReturn(FALSE)
  /\ mutex' = "free"
  /\ UNCHANGED <<current_position, t_loaded, ui_op, ui_pos, ui_i, ui_loaded,
                 ui_all, ui_nested, calls>>

\* destroy_connection_thread called with the mutex held: the slot and the
\* thread count after it
DestroyedSlot(sl) == [sl EXCEPT !.is_active_audio = FALSE]

ThreadsAfterDestroy(n) == IF n > 0 THEN n - 1 ELSE n

UI_save(p) == DialStep /\ UiLockedCall("save", p)

\* dial_manager_save_slot behind the take
UI_save_body ==
  /\ DialStep
  /\ ui_pc = "body"
  /\ ui_op = "save"
  /\ LET sl == slots[ui_pos]
         destroy == sl.state \in {"CONNECTED", "CONNECTING"} /\ task_handle[ui_pos] # "NULL"
         after == IF destroy THEN DestroyedSlot(sl) ELSE sl
     IN /\ slots' = [slots EXCEPT ![ui_pos] =
                       [after EXCEPT !.is_configured = TRUE, !.state = "SAVED"]]
        /\ task_handle' = IF destroy THEN [task_handle EXCEPT ![ui_pos] = "NULL"]
                                     ELSE task_handle
        /\ active_threads' = IF destroy THEN ThreadsAfterDestroy(active_threads)
                                        ELSE active_threads
  /\ mutex' = "free"
  /\ UiReturn(TRUE)
  /\ UNCHANGED <<current_position, taskVars, ui_op, ui_pos, ui_i, ui_loaded,
                 ui_all, ui_nested, ghostVars>>

UI_clear(p) == DialStep /\ UiLockedCall("clear", p)

\* dial_manager_clear_slot behind the take
UI_clear_body ==
  /\ DialStep
  /\ ui_pc = "body"
  /\ ui_op = "clear"
  /\ slots' = [slots EXCEPT ![ui_pos] = EmptySlot]
  /\ task_handle' = [task_handle EXCEPT ![ui_pos] = "NULL"]
  /\ active_threads' = IF task_handle[ui_pos] # "NULL"
                         THEN ThreadsAfterDestroy(active_threads)
                         ELSE active_threads
  /\ mutex' = "free"
  /\ UiReturn(TRUE)
  /\ UNCHANGED <<current_position, taskVars, ui_op, ui_pos, ui_i, ui_loaded,
                 ui_all, ui_nested, ghostVars>>

UI_set_position(p) == DialStep /\ UiLockedCall("set_position", p)

\* new_pos of dial_manager_rotate, computed in int8_t
RotateTarget(cur, direction) ==
  LET np == cur + direction
  IN IF np < 0 THEN DIAL_POSITIONS - 1
     ELSE IF np >= DIAL_POSITIONS THEN 0
     ELSE np

UI_rotate(direction) ==
  DialStep /\ UiLockedCall("rotate", RotateTarget(current_position, direction))

\* dial_manager_set_position behind the take: the cursor moves; on a
\* CONNECTED slot dial_manager_set_active_audio is called with the mutex held
UI_set_position_body ==
  /\ DialStep
  /\ ui_pc = "body"
  /\ ui_op \in {"set_position", "rotate"}
  /\ current_position' = ui_pos
  /\ IF slots[ui_pos].state = "CONNECTED"
       THEN /\ ui_nested' = TRUE
            /\ ui_pc' = "take"
            /\ UNCHANGED <<mutex, ui_ret>>
       ELSE /\ mutex' = "free"
            /\ UiReturn(TRUE)
            /\ UNCHANGED ui_nested
  /\ UNCHANGED <<slots, task_handle, active_threads, taskVars, ui_op, ui_pos,
                 ui_i, ui_loaded, ui_all, ghostVars>>

UI_set_active_audio(p) == DialStep /\ UiLockedCall("set_active_audio", p)

\* dm->slots[i].is_active_audio = (i == position)
AudioFlag(i, position) == i = position

\* the rounds of the loop, from round i on, that store a value other than
\* the one the flag has
AudioChanges(i, position) ==
  {j \in i .. (DIAL_POSITIONS - 1) : slots[j].is_active_audio # AudioFlag(j, position)}

Lowest(S) == CHOOSE x \in S : \A y \in S : x <= y

\* the loop of dial_manager_set_active_audio, one store at a time.  The
\* rounds that store the value a flag already has change nothing and are
\* taken together with the next round that changes a flag; the rounds
\* behind the last change are taken together with xSemaphoreGive.
UI_audio_step ==
  /\ DialStep
  /\ ui_pc = "audio"
  /\ LET todo == AudioChanges(ui_i, ui_pos)
         j == Lowest(todo)
         last == todo = {} \/ AudioChanges(j + 1, ui_pos) = {}
     IN /\ slots' = IF todo = {} THEN slots
                     ELSE [slots EXCEPT ![j].is_active_audio = AudioFlag(j, ui_pos)]
        /\ IF last
             THEN /\ mutex' = "free"
                  /\ UiReturn(TRUE)
                  /\ ui_i' = 0
             ELSE /\ ui_i' = j + 1
                  /\ UNCHANGED <<mutex, ui_pc, ui_ret>>
  /\ UNCHANGED <<task_handle, current_position, active_threads, taskVars,
                 ui_op, ui_pos, ui_loaded, ui_all, ui_nested, ghostVars>>

\* dial_manager_disconnect is entered, for one slot or by
\* dial_manager_disconnect_all for each slot in turn
UiDisconnectCall(op, p, all) ==
  /\ ui_pc = "idle"
  /\ ui_op' = op
  /\ ui_pos' = p
  /\ ui_all' = all
  /\ ui_nested' = FALSE
  /\ ui_pc' = "disc_check"
  /\ calls' = calls + 1
  /\ UNCHANGED <<dmVars, taskVars, ui_ret, ui_i, ui_loaded, connects_ok>>

UI_disconnect(p) == DialStep /\ UiDisconnectCall("disconnect", p, FALSE)

UI_disconnect_all == DialStep /\ UiDisconnectCall("disconnect_all", 0, TRUE)

\* the slots behind slot i that have a task handle
HandlesBehind(i) == {j \in (i + 1) .. (DIAL_POSITIONS - 1) : task_handle[j] # "NULL"}

\* dial_manager_disconnect returns; dial_manager_disconnect_all goes on
\* with the next slot.  On a slot without a task handle the call returns at
\* once and changes nothing, and only the UI task ever sets a handle: the
\* calls for such slots are taken together with the next call that finds a
\* handle, or with the end of the loop.
DiscReturn ==
  /\ ui_ret' = TRUE
  /\ IF ui_all /\ HandlesBehind(ui_pos) # {}
       THEN ui_pos' = Lowest(HandlesBehind(ui_pos)) /\ ui_pc' = "disc_check"
       ELSE /\ ui_pos' = IF ui_all THEN DIAL_POSITIONS - 1 ELSE ui_pos
            /\ ui_pc' = "idle"

\* if (slot->task_handle == NULL) return true
UI_disc_check ==
  /\ DialStep
  /\ ui_pc = "disc_check"
  /\ IF task_handle[ui_pos] = "NULL"
       THEN DiscReturn
       ELSE ui_pc' = "destroy" /\ UNCHANGED <<ui_pos, ui_ret>>
  /\ UNCHANGED <<dmVars, taskVars, ui_op, ui_i, ui_loaded, ui_all, ui_nested, ghostVars>>

\* destroy_connection_thread called without the mutex: vTaskDelete of the
\* task the handle refers to (a mutex that task holds stays taken),
\* task_handle = NULL, is_active_audio = false
UI_destroy ==
  /\ DialStep
  /\ ui_pc = "destroy"
  /\ IF task_handle[ui_pos] = "NULL"
       THEN /\ ui_pc' = "disc_state"
            /\ UNCHANGED <<slots, task_handle, mutex>>
       ELSE /\ mutex' = IF task_handle[ui_pos] \in {"crit1", "crit2"} THEN "dead" ELSE mutex
            /\ task_handle' = [task_handle EXCEPT ![ui_pos] = "NULL"]
            /\ slots' = [slots EXCEPT ![ui_pos] = DestroyedSlot(@)]
            /\ ui_pc' = "dec_load"
  /\ UNCHANGED <<current_position, active_threads, taskVars, ui_op, ui_pos,
                 ui_ret, ui_i, ui_loaded, ui_all, ui_nested, ghostVars>>

\* if (dm->active_threads > 0) dm->active_threads--, without the mutex: the
\* load and the store
UI_dec_load ==
  /\ DialStep
  /\ ui_pc = "dec_load"
  /\ ui_loaded' = IF active_threads > 0 THEN active_threads ELSE 0
  /\ ui_pc' = IF active_threads > 0 THEN "dec_store" ELSE "disc_state"
  /\ UNCHANGED <<dmVars, taskVars, ui_op, ui_pos, ui_ret, ui_i, ui_all, ui_nested, ghostVars>>

UI_dec_store ==
  /\ DialStep
  /\ ui_pc = "dec_store"
  /\ active_threads' = ui_loaded - 1
  /\ ui_loaded' = 0
  /\ ui_pc' = "disc_state"
  /\ UNCHANGED <<slots, task_handle, current_position, mutex, taskVars, ui_op,
                 ui_pos, ui_ret, ui_i, ui_all, ui_nested, ghostVars>>

\* slot->state = is_configured ? DIAL_SLOT_SAVED : DIAL_SLOT_EMPTY; return true
UI_disc_state ==
  /\ DialStep
  /\ ui_pc = "disc_state"
  /\ slots' = [slots EXCEPT ![ui_pos].state =
                 IF slots[ui_pos].is_configured THEN "SAVED" ELSE "EMPTY"]
  /\ DiscReturn
  /\ UNCHANGED <<task_handle, current_position, active_threads, mutex, taskVars,
                 ui_op, ui_i, ui_loaded, ui_all, ui_nested, ghostVars>>

Who == {"handle", "orphan"}

\* the steps of the connection tasks of the slots in S
TaskStep(S) ==
  \/ \E p \in S, who \in Who : T_take(p, who)
  \/ \E p \in S, who \in Who : T_connected(p, who)
  \/ \E p \in S, who \in Who : T_loop(p, who)
  \/ \E p \in S, who \in Who : T_cleanup_load(p, who)
  \/ \E p \in S : T_cleanup_store(p)

\* the UI task inside a call
UiStep ==
  \/ UI_take
  \/ \E created \in BOOLEAN : UI_create(created)
  \/ UI_save_body
  \/ UI_clear_body
  \/ UI_set_position_body
  \/ UI_audio_step
  \/ UI_disc_check
  \/ UI_destroy
  \/ UI_dec_load
  \/ UI_dec_store
  \/ UI_disc_state

NextDial ==
  \/ calls < MaxCalls /\ \E p \in Pos : UI_connect(p)
  \/ calls < MaxCalls /\ \E p \in Pos : UI_save(p)
  \/ calls < MaxCalls /\ \E p \in Pos : UI_clear(p)
  \/ calls < MaxCalls /\ \E p \in Pos : UI_set_position(p)
  \/ calls < MaxCalls /\ \E d \in {-1, 1} : UI_rotate(d)
  \/ calls < MaxCalls /\ \E p \in Pos : UI_set_active_audio(p)
  \/ calls < MaxCalls /\ \E p \in Pos : UI_disconnect(p)
  \/ calls < MaxCalls /\ UI_disconnect_all
  \/ UiStep
  \/ TaskStep(Pos)

\* ---------------------------------------------------------------------------
\* The call flow of two devices: the device state machine (device_state.c),
\* the callbacks and the main loop of main.c, the audio driver state (audio.c).
\* The packets that carry the flow are taken as well-formed here; their
\* framing is the subject of the codec below.
\* ---------------------------------------------------------------------------

Dev == {"A", "B"}

Peer(d) == IF d = "A" THEN "B" ELSE "A"

\* the buttons of button_id_t that the call flow uses (BTN_1 stands for a digit)
Buttons == {"BTN_1", "BTN_GREEN", "BTN_RED"}

FREQUENCY_ID_LENGTH == 8

CALL_TIMEOUT == 30000

\* the time after which device_update leaves the state the context is in: 0
\* for a state without a timeout
Deadline(c) ==
  CASE c.current_state = "WAITING_RESPONSE" -> CALL_TIMEOUT
    [] c.current_state = "MESSAGE" -> c.message_timeout
    [] OTHER -> 0

\* a button is pressed MaxPresses times and a packet is sent MaxSends times
\* at most
MaxPresses == 3

MaxSends == 2

\* the context after device_init. The code keeps state_enter_time and reads
\* it only in the difference GET_MILLIS() - state_enter_time; since_enter is
\* that difference, counted up to CALL_TIMEOUT, the largest value it is
\* compared with, and counted only in a state whose timeout device_update
\* checks (every change of state sets it to 0 before it is read again).
\* connection_id is current_connection.device.id
device_init ==
  [ current_state |-> "IDLE", previous_state |-> "IDLE", input_cursor |-> 0,
    is_connected |-> FALSE, is_muted |-> FALSE,
    connected_to_frequency |-> FALSE, since_enter |-> 0,
    message_timeout |-> 0, message_title |-> "", connection_id |-> "" ]

device_clear_input(c) == [c EXCEPT !.input_cursor = 0]

device_set_state(c, new_state) ==
  [ c EXCEPT !.previous_state = c.current_state,
             !.current_state = new_state,
             !.since_enter = 0,
             !.input_cursor =
                IF new_state \in {"INPUT_CODE", "FREQ_CREATE_PASSWORD", "PASSWORD_ENTRY"}
                  THEN 0 ELSE @ ]

device_go_back(c) == device_set_state(c, c.previous_state)

device_input_digit(c) ==
  IF c.input_cursor < FREQUENCY_ID_LENGTH
    THEN [c EXCEPT !.input_cursor = @ + 1]
    ELSE c

handle_idle_button(c, btn) ==
  CASE btn = "BTN_1" -> device_input_digit(c)
    [] btn = "BTN_GREEN" ->
         IF c.input_cursor > 0 THEN device_set_state(c, "WAITING_RESPONSE") ELSE c
    [] btn = "BTN_RED" -> device_clear_input(c)
    [] OTHER -> c

handle_in_call_button(c, btn) ==
  CASE btn = "BTN_GREEN" -> [c EXCEPT !.is_muted = ~@]
    [] btn = "BTN_RED" -> device_set_state([c EXCEPT !.is_connected = FALSE], "IDLE")
    [] OTHER -> c

handle_in_frequency_button(c, btn) ==
  CASE btn = "BTN_GREEN" -> [c EXCEPT !.is_muted = ~@]
    [] btn = "BTN_RED" -> device_set_state([c EXCEPT !.is_connected = FALSE], "IDLE")
    [] OTHER -> c

handle_incoming_request_button(c, btn) ==
  CASE btn = "BTN_GREEN" ->
         device_set_state([c EXCEPT !.is_connected = TRUE],
                          IF c.connected_to_frequency THEN "IN_FREQUENCY" ELSE "IN_CALL")
    [] btn = "BTN_RED" -> device_set_state(c, "IDLE")
    [] OTHER -> c

\* a press of btn; a state without a case (STATE_WAITING_RESPONSE is one)
\* ignores the button
device_handle_button(c, btn) ==
  CASE c.current_state = "IDLE" -> handle_idle_button(c, btn)
    [] c.current_state = "IN_CALL" -> handle_in_call_button(c, btn)
    [] c.current_state = "IN_FREQUENCY" -> handle_in_frequency_button(c, btn)
    [] c.current_state = "INCOMING_REQUEST" -> handle_incoming_request_button(c, btn)
    [] c.current_state \in {"MESSAGE", "ERROR"} -> device_go_back(c)
    [] OTHER -> c

device_update(c) ==
  CASE c.current_state = "WAITING_RESPONSE" ->
         IF c.since_enter >= CALL_TIMEOUT
           THEN device_set_state([c EXCEPT !.message_title = "Timeout",
                                           !.message_timeout = 2000], "MESSAGE")
           ELSE c
    [] c.current_state = "MESSAGE" ->
         IF c.message_timeout > 0 /\ c.since_enter >= c.message_timeout
           THEN device_go_back(c)
           ELSE c
    [] OTHER -> c

\* audio.c: the moves of g_state
audio_start_recording_callback(g) == "RECORDING"

audio_stop_recording(g) ==
  CASE g = "RECORDING" -> "IDLE"
    [] g = "DUPLEX" -> "PLAYING"
    [] OTHER -> g

audio_is_recording(g) == g \in {"RECORDING", "DUPLEX"}

audio_start_playback(g) ==
  CASE g \in {"PLAYING", "DUPLEX"} -> g
    [] g = "RECORDING" -> "DUPLEX"
    [] OTHER -> "PLAYING"

audio_stop_playback(g) ==
  CASE g = "PLAYING" -> "IDLE"
    [] g = "DUPLEX" -> "RECORDING"
    [] OTHER -> g

audio_is_playing(g) == g \in {"PLAYING", "DUPLEX"}

buttons_is_transmitting(mode, pressed) ==
  CASE mode = "ALWAYS" -> TRUE
    [] mode = "PTT" -> pressed
    [] OTHER -> FALSE

CallBoot ==
  /\ ctx = [d \in Dev |-> device_init]
  /\ audio_state = [d \in Dev |-> "IDLE"]
  /\ is_transmitting = [d \in Dev |-> FALSE]
  /\ air = {}
  /\ sends = 0
  /\ presses = 0

CallStep == UNCHANGED <<ringVars, spscVars, dialVars, protoVars, restVars>>

\* on_button_event: a press reaches the state machine
Press(d, btn) ==
  /\ presses < MaxPresses
  /\ presses' = presses + 1
  /\ ctx' = [ctx EXCEPT ![d] = device_handle_button(@, btn)]
  /\ UNCHANGED <<audio_state, is_transmitting, air, sends>>
  /\ CallStep

\* time passes on both devices. The clock is looked at only where it is read:
\* it advances by the timeout of the state that d is in, which is the only
\* use device_update makes of it
Elapse(d) ==
  /\ Deadline(ctx[d]) > 0
  /\ ctx' = [e \in Dev |-> [ctx[e] EXCEPT !.since_enter =
                 IF Deadline(ctx[e]) = 0 THEN @
                 ELSE IF @ + Deadline(ctx[d]) < CALL_TIMEOUT
                   THEN @ + Deadline(ctx[d]) ELSE CALL_TIMEOUT]]
  /\ UNCHANGED <<audio_state, is_transmitting, air, sends, presses>>
  /\ CallStep

\* main_loop: device_update
Update(d) ==
  /\ ctx' = [ctx EXCEPT ![d] = device_update(@)]
  /\ UNCHANGED <<audio_state, is_transmitting, air, sends, presses>>
  /\ CallStep

\* the channel carries one packet at a time: its type, the source id of its
\* header, the device in range that receives it and the target id of its
\* payload ("" for a packet without one)
Transmit(d, type, target) ==
  /\ sends < MaxSends
  /\ sends' = sends + 1
  /\ air = {}
  /\ air' = {[type |-> type, src |-> d, dst |-> Peer(d), target |-> target]}
  /\ UNCHANGED <<ctx, audio_state, is_transmitting, presses>>
  /\ CallStep

\* dial_connection_task: protocol_send_call_request(slot->code), with the
\* code the user saved in the slot: the id of the peer or of a third device
SendCallRequest(d) == \E code \in {Peer(d), "X"} : Transmit(d, "CALL_REQUEST", code)

\* destroy_connection_thread: protocol_send_disconnect()
SendDisconnect(d) == Transmit(d, "CALL_END", "")

\* a station that runs other firmware answers within range of d; no code of
\* this firmware sends either of the two types
Foreign(d, type) ==
  /\ sends < MaxSends
  /\ sends' = sends + 1
  /\ air = {}
  /\ air' = {[type |-> type, src |-> "X", dst |-> d, target |-> ""]}
  /\ UNCHANGED <<ctx, audio_state, is_transmitting, presses>>
  /\ CallStep

\* on_protocol_message: what a packet of the given type does to the context
\* and to the audio driver
on_protocol_message_ctx(c, type, src_id) ==
  CASE type = "CALL_REQUEST" ->
         device_set_state([c EXCEPT !.connection_id = src_id,
                                    !.connected_to_frequency = FALSE], "INCOMING_REQUEST")
    [] type = "CALL_ACCEPT" ->
         device_set_state([c EXCEPT !.is_connected = TRUE], "IN_CALL")
    [] type = "CALL_REJECT" ->
         device_set_state([c EXCEPT !.message_title = "Rejected",
                                    !.message_timeout = 2000], "MESSAGE")
    [] type = "CALL_END" ->
         device_set_state([c EXCEPT !.is_connected = FALSE], "IDLE")
    [] OTHER -> c

on_protocol_message_audio(g, type) ==
  CASE type = "CALL_ACCEPT" -> audio_start_playback(g)
    [] type = "CALL_END" -> audio_stop_playback(audio_stop_recording(g))
    [] OTHER -> g

\* radio_update -> protocol_handle_received -> on_protocol_message
Deliver(d, m) ==
  /\ m \in air
  /\ m.dst = d
  /\ air' = air \ {m}
  /\ ctx' = [ctx EXCEPT ![d] = on_protocol_message_ctx(@, m.type, m.src)]
  /\ audio_state' = [audio_state EXCEPT ![d] = on_protocol_message_audio(@, m.type)]
  /\ UNCHANGED <<is_transmitting, sends, presses>>
  /\ CallStep

\* main_loop: handle_audio_transmission, under the talk mode switch and the
\* push-to-talk button as they stand at the call
handle_audio_transmission(d, mode, pressed) ==
  /\ IF ~ctx[d].is_connected \/ ctx[d].is_muted
       THEN IF is_transmitting[d]
              THEN /\ is_transmitting' = [is_transmitting EXCEPT ![d] = FALSE]
                   /\ audio_state' = [audio_state EXCEPT ![d] = audio_stop_recording(@)]
              ELSE UNCHANGED <<is_transmitting, audio_state>>
       ELSE IF buttons_is_transmitting(mode, pressed) /\ ~is_transmitting[d]
              THEN /\ is_transmitting' = [is_transmitting EXCEPT ![d] = TRUE]
                   /\ audio_state' = [audio_state EXCEPT ![d] = audio_start_recording_callback(@)]
              ELSE IF ~buttons_is_transmitting(mode, pressed) /\ is_transmitting[d] /\ mode = "PTT"
                     THEN /\ is_transmitting' = [is_transmitting EXCEPT ![d] = FALSE]
                          /\ audio_state' = [audio_state EXCEPT ![d] = audio_stop_recording(@)]
                     ELSE UNCHANGED <<is_transmitting, audio_state>>
  /\ UNCHANGED <<ctx, air, sends, presses>>
  /\ CallStep

\* main_loop: handle_audio_playback; ready is audio_buffer_jitter_ready
handle_audio_playback(d, ready) ==
  /\ audio_state' = [audio_state EXCEPT ![d] =
        IF ctx[d].is_connected /\ ~audio_is_playing(@) /\ ready
          THEN audio_start_playback(@) ELSE @]
  /\ UNCHANGED <<ctx, is_transmitting, air, sends, presses>>
  /\ CallStep

NextCall ==
  \/ \E d \in Dev, btn \in Buttons : Press(d, btn)
  \/ \E d \in Dev : Elapse(d)
  \/ \E d \in Dev : Update(d)
  \/ \E d \in Dev : SendCallRequest(d)
  \/ \E d \in Dev : SendDisconnect(d)
  \/ \E d \in Dev, type \in {"CALL_ACCEPT", "CALL_REJECT"} : Foreign(d, type)
  \/ \E d \in Dev, m \in air : Deliver(d, m)
  \/ \E d \in Dev, mode \in {"ALWAYS", "PTT", "MUTED"}, pressed \in BOOLEAN :
        handle_audio_transmission(d, mode, pressed)
  \/ \E d \in Dev, ready \in BOOLEAN : handle_audio_playback(d, ready)

\* ---------------------------------------------------------------------------
\* The packet codec (protocol.c): protocol_build_packet, protocol_parse_packet,
\* protocol_crc16 and protocol_handle_received, over packets as sequences of
\* bytes in the order they have in memory (packed structures, little-endian).
\* ---------------------------------------------------------------------------

PROTOCOL_VERSION == 1

MAX_PACKET_SIZE == 256

PACKET_HEADER_SIZE == 12

PACKET_MAGIC_VALUE == 22356

DEVICE_ID_LENGTH == 8

AUDIO_BUFFER_SIZE == 256

MSG_CALL_REQUEST == 16

MSG_VOICE_DATA == 48

MSG_PING == 66

MSG_PONG == 67

\* sizeof(packet_header_t): magic, version, msg_type, src_id, payload_len,
\* checksum, packed
HeaderSize == 2 + 1 + 1 + DEVICE_ID_LENGTH + 2 + 2

\* sizeof(voice_data_t): timestamp, sequence, audio_len, audio_data, packed
VoiceSize == 4 + 2 + 2 + AUDIO_BUFFER_SIZE

\* the two bytes of a uint16_t in memory
Lo(x) == x % UINT8

Hi(x) == (x \div UINT8) % UINT8

U16(lo, hi) == lo + UINT8 * hi

\* the characters of a string of decimal digits
Ascii(ds) == [i \in 1..Len(ds) |-> 48 + ds[i]]

\* a ^ b on unsigned integers
RECURSIVE Xor(_, _)
Xor(a, b) ==
  IF a = 0 THEN b
  ELSE IF b = 0 THEN a
  ELSE ((a + b) % 2) + 2 * Xor(a \div 2, b \div 2)

\* the table of protocol.c, entry n at index n + 1
crc16_table == <<
  0, 4129, 8258, 12387, 16516, 20645, 24774, 28903,
  33032, 37161, 41290, 45419, 49548, 53677, 57806, 61935,
  4657, 528, 12915, 8786, 21173, 17044, 29431, 25302,
  37689, 33560, 45947, 41818, 54205, 50076, 62463, 58334,
  9314, 13379, 1056, 5121, 25830, 29895, 17572, 21637,
  42346, 46411, 34088, 38153, 58862, 62927, 50604, 54669,
  13907, 9842, 5649, 1584, 30423, 26358, 22165, 18100,
  46939, 42874, 38681, 34616, 63455, 59390, 55197, 51132,
  18628, 22757, 26758, 30887, 2112, 6241, 10242, 14371,
  51660, 55789, 59790, 63919, 35144, 39273, 43274, 47403,
  23285, 19156, 31415, 27286, 6769, 2640, 14899, 10770,
  56317, 52188, 64447, 60318, 39801, 35672, 47931, 43802,
  27814, 31879, 19684, 23749, 11298, 15363, 3168, 7233,
  60846, 64911, 52716, 56781, 44330, 48395, 36200, 40265,
  32407, 28342, 24277, 20212, 15891, 11826, 7761, 3696,
  65439, 61374, 57309, 53244, 48923, 44858, 40793, 36728,
  37256, 33193, 45514, 41451, 53516, 49453, 61774, 57711,
  4224, 161, 12482, 8419, 20484, 16421, 28742, 24679,
  33721, 37784, 41979, 46042, 49981, 54044, 58239, 62302,
  689, 4752, 8947, 13010, 16949, 21012, 25207, 29270,
  46570, 42443, 38312, 34185, 62830, 58703, 54572, 50445,
  13538, 9411, 5280, 1153, 29798, 25671, 21540, 17413,
  42971, 47098, 34713, 38840, 59231, 63358, 50973, 55100,
  9939, 14066, 1681, 5808, 26199, 30326, 17941, 22068,
  55628, 51565, 63758, 59695, 39368, 35305, 47498, 43435,
  22596, 18533, 30726, 26663, 6336, 2273, 14466, 10403,
  52093, 56156, 60223, 64286, 35833, 39896, 43963, 48026,
  19061, 23124, 27191, 31254, 2801, 6864, 10931, 14994,
  64814, 60687, 56684, 52557, 48554, 44427, 40424, 36297,
  31782, 27655, 23652, 19525, 15522, 11395, 7392, 3265,
  61215, 65342, 53085, 57212, 44955, 49082, 36825, 40952,
  28183, 32310, 20053, 24180, 11923, 16050, 3793, 7920 >>

\* one round of the loop of protocol_crc16
crc16_step(crc, byte) ==
  Xor((crc * UINT8) % UINT16, crc16_table[Xor(crc \div UINT8, byte) + 1])

\* the rounds of the loop for the bytes lo..hi of data, in order: the first
\* half of the bytes, then the second half from the value the first half
\* left (it is a number: the test has it evaluated before the second half
\* starts, so that the evaluation does not nest once per byte)
RECURSIVE crc16_loop(_, _, _, _)
crc16_loop(crc, data, lo, hi) ==
  IF lo > hi THEN crc
  ELSE IF lo = hi THEN crc16_step(crc, data[lo])
  ELSE LET first == crc16_loop(crc, data, lo, (lo + hi) \div 2)
       IN  CASE first \in Nat -> crc16_loop(first, data, (lo + hi) \div 2 + 1, hi)

\* a variant that stops at the end of the header
protocol_crc16HeaderOnly(data, len) ==
  crc16_loop(UINT16 - 1, data, 1, IF len < HeaderSize THEN len ELSE HeaderSize)

protocol_crc16(data, len) == crc16_loop(UINT16 - 1, data, 1, len)

\* a variant that stores the 16-bit fields high byte first
HeaderBytesBigEndian(msg_type, src, payload_len, checksum) ==
  <<Hi(PACKET_MAGIC_VALUE), Lo(PACKET_MAGIC_VALUE), PROTOCOL_VERSION, msg_type % UINT8>>
    \o src \o <<Hi(payload_len), Lo(payload_len), Hi(checksum), Lo(checksum)>>

\* the bytes of a packet_header_t
HeaderBytes(msg_type, src, payload_len, checksum) ==
  <<Lo(PACKET_MAGIC_VALUE), Hi(PACKET_MAGIC_VALUE), PROTOCOL_VERSION, msg_type % UINT8>>
    \o src \o <<Lo(payload_len), Hi(payload_len), Lo(checksum), Hi(checksum)>>

\* the length protocol_build_packet copies: a longer payload is cut, not refused
ClampLen(payload_len) ==
  IF payload_len > MAX_PACKET_SIZE - PACKET_HEADER_SIZE
    THEN MAX_PACKET_SIZE - PACKET_HEADER_SIZE
    ELSE payload_len

\* the source id written: the one given, else (src_id NULL, written <<>>) the
\* local id if it is set, else eight characters '0'
SourceId(src_id, local_id) ==
  IF src_id # <<>> THEN src_id
  ELSE IF local_id # <<>> THEN local_id
  ELSE [i \in 1..DEVICE_ID_LENGTH |-> 48]

\* protocol_build_packet with an out_buffer that holds what is written: the
\* bytes written and the length returned
BuildBytes(msg_type, src_id, local_id, payload) ==
  LET len == ClampLen(Len(payload))
      body == SubSeq(payload, 1, len)
      clear == HeaderBytes(msg_type, SourceId(src_id, local_id), len, 0) \o body
  IN  HeaderBytes(msg_type, SourceId(src_id, local_id), len,
                  protocol_crc16(clear, HeaderSize + len)) \o body

protocol_build_packet(msg_type, src_id, local_id, payload) ==
  [ bytes |-> BuildBytes(msg_type, src_id, local_id, payload),
    len |-> HeaderSize + ClampLen(Len(payload)) ]

\* the fields of the header at the start of a buffer of at least HeaderSize bytes
Magic(buf) == U16(buf[1], buf[2])

Version(buf) == buf[3]

MsgType(buf) == buf[4]

SrcId(buf) == SubSeq(buf, 5, 4 + DEVICE_ID_LENGTH)

PayloadLen(buf) == U16(buf[5 + DEVICE_ID_LENGTH], buf[6 + DEVICE_ID_LENGTH])

Checksum(buf) == U16(buf[7 + DEVICE_ID_LENGTH], buf[8 + DEVICE_ID_LENGTH])

\* the buffer with the checksum field cleared
Cleared(buf) ==
  [i \in 1..Len(buf) |->
     IF i \in {7 + DEVICE_ID_LENGTH, 8 + DEVICE_ID_LENGTH} THEN 0 ELSE buf[i]]

Rejected(why) ==
  [ok |-> FALSE, why |-> why, msg_type |-> 0, src_id |-> <<>>, payload_len |-> 0,
   payload |-> <<>>]

\* a variant of the comparison of the checksums that accepts every packet
CrcMatchesUnchecked(buf) == TRUE

\* calc_crc == stored_crc in protocol_parse_packet
CrcMatches(buf) ==
  protocol_crc16(Cleared(buf), HeaderSize + PayloadLen(buf)) = Checksum(buf)

\* protocol_parse_packet: the result, the return taken (why) and, on success,
\* what out_header and out_payload give
protocol_parse_packet(buf) ==
  IF Len(buf) < HeaderSize THEN Rejected("short")
  ELSE IF Magic(buf) # PACKET_MAGIC_VALUE THEN Rejected("magic")
  ELSE IF Version(buf) # PROTOCOL_VERSION THEN Rejected("version")
  ELSE IF Len(buf) < HeaderSize + PayloadLen(buf) THEN Rejected("length")
  ELSE IF ~CrcMatches(buf) THEN Rejected("crc")
  ELSE [ok |-> TRUE, why |-> "ok", msg_type |-> MsgType(buf), src_id |-> SrcId(buf),
        payload_len |-> PayloadLen(buf),
        payload |-> SubSeq(buf, HeaderSize + 1, HeaderSize + PayloadLen(buf))]

\* the local id set by protocol_set_device_id
LocalId == Ascii(<<1, 2, 3, 4, 5, 6, 7, 8>>)

PeerId == Ascii(<<8, 7, 6, 5, 4, 3, 2, 1>>)

\* payloads of n bytes
Pattern(n) == [i \in 1..n |-> (i * 37) % UINT8]

\* every value of the byte at offset HeaderSize + 3 is tried on packets with
\* payloads of up to MaxFlipPayload bytes
MaxFlipPayload == 5

MsgTypes == {MSG_CALL_REQUEST, MSG_VOICE_DATA, MSG_PING}

\* the payloads built: none, a target id, short ones, and around the two
\* limits: MAX_PACKET_SIZE - HeaderSize (the largest that fits a packet of
\* MAX_PACKET_SIZE) and MAX_PACKET_SIZE - PACKET_HEADER_SIZE (where the code
\* cuts), and a voice_data_t
Payloads ==
  {<<>>, PeerId} \cup {Pattern(n) : n \in 4..MaxFlipPayload}
    \cup {Pattern(n) : n \in {MAX_PACKET_SIZE - HeaderSize, MAX_PACKET_SIZE - HeaderSize + 1,
                              MAX_PACKET_SIZE - PACKET_HEADER_SIZE,
                              MAX_PACKET_SIZE - PACKET_HEADER_SIZE + 1, VoiceSize}}

\* buf with the byte at offset o (from 0) set to v
SetByte(buf, o, v) == [buf EXCEPT ![o + 1] = v]

\* what the radio may hand to protocol_handle_received when pkt was sent: the
\* packet, a part of it, the packet with bytes after it, the packet with one
\* byte of the header changed, and the packet with the byte at offset
\* HeaderSize + 3 changed (to every value if the payload is short)
Received(pkt) ==
  {pkt, pkt \o <<0>>}
    \cup {SubSeq(pkt, 1, n) : n \in {0, HeaderSize - 1, Len(pkt) - 1}}
    \cup {SetByte(pkt, o, (pkt[o + 1] + 1) % UINT8) :
            o \in {0, 2, 3, 4 + DEVICE_ID_LENGTH, 5 + DEVICE_ID_LENGTH, 6 + DEVICE_ID_LENGTH}}
    \cup {SetByte(pkt, HeaderSize + 3, v) :
            v \in IF Len(pkt) <= HeaderSize + 3 THEN {}
                  ELSE IF Len(pkt) <= HeaderSize + MaxFlipPayload THEN 0..(UINT8 - 1)
                  ELSE {(pkt[HeaderSize + 4] + 1) % UINT8}}

\* the arguments of protocol_build_packet that are tried: the message type,
\* src_id (<<>> for NULL), the local id (<<>> while it is not set), the payload
BuildInputs ==
  {[msg_type |-> t, src_id |-> ids[1], local_id |-> ids[2], payload |-> payload] :
     t \in MsgTypes, ids \in {<<LocalId, LocalId>>}, payload \in Payloads}
  \cup
  {[msg_type |-> MSG_CALL_REQUEST, src_id |-> <<>>, local_id |-> id, payload |-> payload] :
     id \in {LocalId, <<>>}, payload \in Payloads}

ProtoBoot(args) ==
  /\ p_args = args
  /\ p_pkt = <<>>
  /\ p_len = 0
  /\ p_rx = <<>>
  /\ p_parsed = <<>>
  /\ p_calls = <<>>
  /\ p_sent = <<>>
  /\ p_op = "boot"

ProtoStep == UNCHANGED <<ringVars, spscVars, dialVars, callVars, restVars>>

\* the call of protocol_build_packet with the arguments of this run
Build ==
  /\ p_op = "boot"
  /\ \E b \in {protocol_build_packet(p_args.msg_type, p_args.src_id, p_args.local_id,
                                      p_args.payload)} :
        /\ p_pkt' = b.bytes
        /\ p_len' = b.len
  /\ p_op' = "build"
  /\ UNCHANGED <<p_args, p_rx, p_parsed, p_calls, p_sent>>
  /\ ProtoStep

\* protocol_handle_received on buf, with on_protocol_message registered: the
\* packets it sends and the calls of the callback it makes
Handled(buf, local_id) ==
  LET h == protocol_parse_packet(buf)
  IN  [ parsed |-> h,
        sent |-> IF h.ok /\ h.msg_type = MSG_PING
                   THEN <<protocol_build_packet(MSG_PONG, local_id, local_id, h.src_id).bytes>>
                   ELSE <<>>,
        calls |-> IF h.ok
                    THEN <<[type |-> h.msg_type, src_id |-> h.src_id,
                            len |-> h.payload_len, payload |-> h.payload]>>
                    ELSE <<>> ]

protocol_handle_received(buf) ==
  /\ p_rx' = buf
  /\ \E r \in {Handled(buf, LocalId)} :
        /\ p_parsed' = r.parsed
        /\ p_sent' = r.sent
        /\ p_calls' = r.calls
  /\ p_op' = "receive"
  /\ UNCHANGED <<p_args, p_pkt, p_len>>
  /\ ProtoStep

NextProto ==
  \/ Build
  \/ p_op = "build" /\ \E buf \in Received(p_pkt) : protocol_handle_received(buf)

\* ---------------------------------------------------------------------------
\* The send path (protocol.c: send_packet, protocol_send_voice; radio.c:
\* radio_send), ESP32 build: the tasks that send run concurrently.  A packet
\* is named by the task that builds it and its number; a buffer holds, part
\* by part, the packet whose bytes are there, the checksum being the CRC of
\* the header and payload that were in the buffer when it was computed.
\* ---------------------------------------------------------------------------

RADIO_MAX_PACKET_SIZE == 255

\* the tasks that send: a connection task of the dial manager
\* (protocol_send_call_request), the audio task (on_audio_captured ->
\* protocol_send_voice) and the main loop (radio_update ->
\* protocol_handle_received, which answers a PING with a PONG)
Senders == {"worker", "audio", "main"}

\* packets each task sends
MaxPackets == 1

NoPacket == <<"none", 0>>

NoFrame == [header |-> NoPacket, payload |-> NoPacket,
            checksum |-> <<NoPacket, NoPacket>>, length |-> 0]

\* packet_len of the packet task t builds: the header and a payload of a
\* target or source id, or of a voice_data_t
BuiltLen(t) == HeaderSize + ClampLen(IF t = "audio" THEN VoiceSize ELSE DEVICE_ID_LENGTH)

\* radio_send(const uint8_t* data, uint8_t length): the length the parameter
\* holds when it is called with a uint16_t
RadioLength(packet_len) == packet_len % UINT8

\* the frame holds the bytes of packet pkt, all of them
Whole(f, pkt) ==
  /\ f.header = pkt
  /\ f.payload = pkt
  /\ f.checksum = <<pkt, pkt>>
  /\ f.length = BuiltLen(pkt[1])

RadioBoot ==
  /\ tx_pc = [t \in Senders |-> "idle"]
  /\ tx_n = [t \in Senders |-> 0]
  /\ g_tx_buffer = NoFrame
  /\ g_mutex = "free"
  /\ g_state = "RX"
  /\ fifo = NoFrame
  /\ on_air = NoFrame
  /\ handed = [t \in Senders |-> <<>>]
  /\ cut = {}

RadioStep == UNCHANGED <<ringVars, spscVars, dialVars, callVars, protoVars, jitVars, idVars, secVars, lateVars>>

\* task t calls send_packet or protocol_send_voice
SendCall(t) ==
  /\ tx_pc[t] = "idle"
  /\ tx_n[t] < MaxPackets
  /\ tx_n' = [tx_n EXCEPT ![t] = @ + 1]
  /\ tx_pc' = [tx_pc EXCEPT ![t] = "header"]
  /\ UNCHANGED <<g_tx_buffer, g_mutex, g_state, fifo, on_air, handed, cut>>
  /\ RadioStep

\* protocol_build_packet on g_tx_buffer: the header fields
BuildHeader(t) ==
  /\ tx_pc[t] = "header"
  /\ g_tx_buffer' = [g_tx_buffer EXCEPT !.header = <<t, tx_n[t]>>]
  /\ tx_pc' = [tx_pc EXCEPT ![t] = "payload"]
  /\ UNCHANGED <<tx_n, g_mutex, g_state, fifo, on_air, handed, cut>>
  /\ RadioStep

\* memcpy of the payload
BuildPayload(t) ==
  /\ tx_pc[t] = "payload"
  /\ g_tx_buffer' = [g_tx_buffer EXCEPT !.payload = <<t, tx_n[t]>>]
  /\ tx_pc' = [tx_pc EXCEPT ![t] = "checksum"]
  /\ UNCHANGED <<tx_n, g_mutex, g_state, fifo, on_air, handed, cut>>
  /\ RadioStep

\* header->checksum = protocol_crc16(out_buffer, packet_len)
BuildChecksum(t) ==
  /\ tx_pc[t] = "checksum"
  /\ g_tx_buffer' = [g_tx_buffer EXCEPT !.checksum = <<g_tx_buffer.header, g_tx_buffer.payload>>]
  /\ tx_pc' = [tx_pc EXCEPT ![t] = "send"]
  /\ UNCHANGED <<tx_n, g_mutex, g_state, fifo, on_air, handed, cut>>
  /\ RadioStep

\* radio_send goes on with a length of 1 .. RADIO_MAX_PACKET_SIZE
RadioAccepts(length) == length # 0 /\ length <= RADIO_MAX_PACKET_SIZE

\* radio_send: xSemaphoreTake(g_mutex) and set_idle(), which puts the modem in
\* standby whatever it is doing
RadioTake(t) ==
  /\ tx_pc[t] = "send"
  /\ RadioAccepts(RadioLength(BuiltLen(t)))
  /\ g_mutex = "free"
  /\ g_mutex' = t
  /\ g_state' = "IDLE"
  /\ on_air' = NoFrame
  /\ cut' = IF on_air = NoFrame THEN cut ELSE cut \cup {on_air}
  /\ tx_pc' = [tx_pc EXCEPT ![t] = "fifo"]
  /\ UNCHANGED <<tx_n, g_tx_buffer, fifo, handed>>
  /\ RadioStep

\* radio_send: spi_write_burst(REG_FIFO, data, length) and the payload length
RadioWrite(t) ==
  /\ tx_pc[t] = "fifo"
  /\ fifo' = [g_tx_buffer EXCEPT !.length = RadioLength(BuiltLen(t))]
  /\ handed' = [handed EXCEPT ![t] = Append(@, fifo')]
  /\ tx_pc' = [tx_pc EXCEPT ![t] = "tx"]
  /\ UNCHANGED <<tx_n, g_tx_buffer, g_mutex, g_state, on_air, cut>>
  /\ RadioStep

\* radio_send: set_mode(MODE_TX), g_state = RADIO_STATE_TX, xSemaphoreGive; the
\* function returns while the modem transmits
RadioStart(t) ==
  /\ tx_pc[t] = "tx"
  /\ on_air' = fifo
  /\ g_state' = "TX"
  /\ g_mutex' = "free"
  /\ tx_pc' = [tx_pc EXCEPT ![t] = "idle"]
  /\ UNCHANGED <<tx_n, g_tx_buffer, fifo, handed, cut>>
  /\ RadioStep

\* the modem has sent the frame and raises TX done
TxComplete ==
  /\ on_air # NoFrame
  /\ on_air' = NoFrame
  /\ UNCHANGED <<tx_pc, tx_n, g_tx_buffer, g_mutex, g_state, fifo, handed, cut>>
  /\ RadioStep

\* main_loop: radio_update -> radio_handle_interrupt on TX done, which goes
\* back to receiving (radio_start_receive takes g_mutex)
radio_update ==
  /\ tx_pc["main"] = "idle"
  /\ g_state = "TX"
  /\ on_air = NoFrame
  /\ g_mutex = "free"
  /\ g_state' = "RX"
  /\ UNCHANGED <<tx_pc, tx_n, g_tx_buffer, g_mutex, fifo, on_air, handed, cut>>
  /\ RadioStep

NextRadio ==
  \/ \E t \in Senders : SendCall(t)
  \/ \E t \in Senders : BuildHeader(t)
  \/ \E t \in Senders : BuildPayload(t)
  \/ \E t \in Senders : BuildChecksum(t)
  \/ \E t \in Senders : RadioTake(t)
  \/ \E t \in Senders : RadioWrite(t)
  \/ \E t \in Senders : RadioStart(t)
  \/ TxComplete
  \/ radio_update

\* ---------------------------------------------------------------------------
\* The jitter threshold of the ring (audio_buffer.c)
\* ---------------------------------------------------------------------------

\* static uint8_t g_jitter_depth = 3
JitterBoot == g_jitter_depth = 3

\* the depths a caller asks for: none, the default, the one init_system sets,
\* the cap, above the cap, the largest uint8_t
JitterDepths == {0, 3, 4, AUDIO_BUFFER_FRAMES \div 2, AUDIO_BUFFER_FRAMES \div 2 + 1, UINT8 - 1}

\* the depth stored for a request of n frames
JitterCap(n) ==
  IF n > AUDIO_BUFFER_FRAMES \div 2 THEN AUDIO_BUFFER_FRAMES \div 2 ELSE n

audio_buffer_set_jitter_depth(n) ==
  /\ g_jitter_depth' = JitterCap(n)
  /\ UNCHANGED <<ringVars, spscVars, dialVars, callVars, protoVars, radioVars, idVars, secVars, lateVars>>

audio_buffer_jitter_readyAbove == audio_buffer_count > g_jitter_depth

audio_buffer_jitter_ready == audio_buffer_count >= g_jitter_depth

NextJitter ==
  \/ \E n \in JitterDepths : audio_buffer_set_jitter_depth(n)
  \/ audio_buffer_write(tick + 1)
  \/ audio_buffer_read

\* ---------------------------------------------------------------------------
\* Device identity, ESP32 build: device_id.c (the persisted id), device_init
\* and init_system (the id the device runs with).  An id of 8 digits is the
\* number they spell, the empty string is -1; a raw id is written as the
\* first four bytes of its SHA-256, which is all the conversion reads.
\* ---------------------------------------------------------------------------

EmptyString == -1

\* restarts and calls of the identity API in a run
MaxIdCalls == 3

\* value = (value % 90000000) + 10000000, printed with %08u
device_id_raw_to_string(raw) == (raw % 90000000) + 10000000

\* memset(&g_device_id, 0, sizeof(g_device_id))
NoDeviceId == [raw |-> 0, string |-> EmptyString, source |-> "UNKNOWN", is_valid |-> FALSE]

NoNvs == [present |-> FALSE, raw |-> 0, string |-> EmptyString, source |-> "UNKNOWN"]

\* the id made of raw bytes from the given source
DerivedId(raw, source) ==
  [raw |-> raw, string |-> device_id_raw_to_string(raw), source |-> source, is_valid |-> TRUE]

\* what device_id_init finds in the hardware: the WiFi MAC of the device, or
\* no hardware id, and then bytes of the random generator
HardwareIds ==
  {DerivedId(7, "MAC_WIFI")} \cup {DerivedId(r, "NVS_RANDOM") : r \in {1, 90000001}}

\* generate_random_bytes, then the conversions
RandomIds == {DerivedId(r, "NVS_RANDOM") : r \in {1, 2}}

\* ids that pass device_id_validate_format
CustomIds == {42, 10000001}

\* generate_device_id: eight random digits
GeneratedDigits == {12345678, 501}

IdBoot(digits) ==
  /\ nvs_id = NoNvs
  /\ g_device_id = NoDeviceId
  /\ id_initialized = FALSE
  /\ ctx_device_id = digits
  /\ g_local_device_id = digits
  /\ id_op = "restart"
  /\ id_calls = 0

IdStep == UNCHANGED <<ringVars, spscVars, dialVars, callVars, protoVars, radioVars, jitVars, secVars, lateVars>>

IdCall(op) ==
  /\ id_calls < MaxIdCalls
  /\ id_calls' = id_calls + 1
  /\ id_op' = op
  /\ IdStep

\* save_id_to_nvs: the values are in storage if nvs_commit succeeds
save_id_to_nvs(id) ==
  \E committed \in BOOLEAN :
    nvs_id' = IF committed
             THEN [present |-> TRUE, raw |-> id.raw, string |-> id.string, source |-> id.source]
             ELSE nvs_id

\* load_id_from_nvs when the namespace holds an id
load_id_from_nvs ==
  [raw |-> nvs_id.raw, string |-> nvs_id.string, source |-> nvs_id.source, is_valid |-> TRUE]

\* the device restarts: the statics are zero again, init_system runs
\* device_init, which generates the id of the context, and hands that id to
\* the protocol layer
Restart ==
  /\ IdCall("restart")
  /\ g_device_id' = NoDeviceId
  /\ id_initialized' = FALSE
  /\ \E digits \in GeneratedDigits :
        /\ ctx_device_id' = digits
        /\ g_local_device_id' = digits
  /\ UNCHANGED nvs_id

device_id_init ==
  /\ IdCall("init")
  /\ IF id_initialized
       THEN UNCHANGED <<nvs_id, g_device_id, id_initialized>>
       ELSE /\ id_initialized' = TRUE
            /\ IF nvs_id.present
                 THEN g_device_id' = load_id_from_nvs /\ UNCHANGED nvs_id
                 ELSE \E id \in HardwareIds :
                        /\ g_device_id' = id
                        /\ save_id_to_nvs(id)
  /\ UNCHANGED <<ctx_device_id, g_local_device_id>>

device_id_generate(force_regenerate) ==
  /\ IdCall(IF force_regenerate THEN "generate_force" ELSE "generate")
  /\ IF ~force_regenerate /\ id_initialized /\ g_device_id.is_valid
       THEN UNCHANGED <<nvs_id, g_device_id>>
       ELSE \E id \in RandomIds :
              /\ g_device_id' = id
              /\ save_id_to_nvs(id)
  /\ UNCHANGED <<id_initialized, ctx_device_id, g_local_device_id>>

device_id_set_custom(id) ==
  /\ IdCall("set_custom")
  /\ g_device_id' = [raw |-> id, string |-> id, source |-> "CUSTOM", is_valid |-> TRUE]
  /\ save_id_to_nvs(g_device_id')
  /\ UNCHANGED <<id_initialized, ctx_device_id, g_local_device_id>>

NextId ==
  \/ Restart
  \/ device_id_init
  \/ \E force_regenerate \in BOOLEAN : device_id_generate(force_regenerate)
  \/ \E id \in CustomIds : device_id_set_custom(id)

\* ---------------------------------------------------------------------------
\* The crypto context (security.h).  The header declares the context, the
\* statistics and the operations; the bodies of the operations are not among
\* the sources and follow the design document: a nonce is the nonce base XOR
\* the counter, decrypt authenticates first and then compares the nonce with
\* the last one accepted.
\* ---------------------------------------------------------------------------

\* calls of encrypt and decrypt in a run
MaxSecCalls == 4

\* the nonces of the packets that arrive: 0 .. MaxPeerNonce
MaxPeerNonce == 2

NonceBases == {0, 5}

\* security_context_t after security_context_init and the derivation of a
\* key: the fields of the header that the operations use, and the nonce last
\* accepted (-1: none yet)
security_context_init(base, agreed) ==
  [ nonce_base |-> base, nonce_counter |-> 0, packets_encrypted |-> 0,
    is_initialized |-> TRUE, key_agreed |-> agreed, last_nonce |-> -1 ]

\* security_stats_t, without the key age
NoStats ==
  [packets_encrypted |-> 0, packets_decrypted |-> 0, auth_failures |-> 0, key_refreshes |-> 0]

\* a packet as decrypt sees it: the nonce it carries and whether ciphertext,
\* tag and AAD are as the sender made them
Arriving == [nonce : 0..MaxPeerNonce, intact : BOOLEAN]

SecBoot(c) ==
  /\ sec_ctx = c
  /\ sec_stats = NoStats
  /\ sec_op = "init"
  /\ sec_ret = "OK"
  /\ sec_rx = [nonce |-> 0, intact |-> FALSE]
  /\ sec_nonces = <<>>
  /\ sec_accepted = {}
  /\ sec_calls = 0

SecCall(op) ==
  /\ sec_calls < MaxSecCalls
  /\ sec_calls' = sec_calls + 1
  /\ sec_op' = op
  /\ UNCHANGED <<ringVars, spscVars, dialVars, callVars, protoVars, radioVars, jitVars, idVars, lateVars>>

\* security_get_nonce: the nonce for the counter
security_get_nonce(c) == Xor(c.nonce_base, c.nonce_counter)

AdvanceNonceNot(counter) == counter

AdvanceNonce(counter) == counter + 1

security_encrypt ==
  /\ SecCall("encrypt")
  /\ IF sec_ctx.is_initialized /\ sec_ctx.key_agreed
       THEN /\ sec_nonces' = Append(sec_nonces, security_get_nonce(sec_ctx))
            /\ sec_ctx' = [sec_ctx EXCEPT !.nonce_counter = AdvanceNonce(@),
                                          !.packets_encrypted = @ + 1]
            /\ sec_stats' = [sec_stats EXCEPT !.packets_encrypted = @ + 1]
            /\ sec_ret' = "OK"
       ELSE /\ sec_ret' = "NOT_INIT"
            /\ UNCHANGED <<sec_ctx, sec_stats, sec_nonces>>
  /\ UNCHANGED <<sec_rx, sec_accepted>>

\* the nonce is newer than the last one accepted
security_verify_nonce(c, nonce) == nonce > c.last_nonce

security_decrypt(p) ==
  /\ SecCall("decrypt")
  /\ sec_rx' = p
  /\ IF ~(sec_ctx.is_initialized /\ sec_ctx.key_agreed)
       THEN /\ sec_ret' = "NOT_INIT"
            /\ UNCHANGED <<sec_ctx, sec_stats, sec_accepted>>
       ELSE IF ~p.intact
         THEN /\ sec_ret' = "AUTH_FAILED"
              /\ sec_stats' = [sec_stats EXCEPT !.auth_failures = @ + 1]
              /\ UNCHANGED <<sec_ctx, sec_accepted>>
         ELSE IF ~security_verify_nonce(sec_ctx, p.nonce)
           THEN /\ sec_ret' = "NONCE"
                /\ UNCHANGED <<sec_ctx, sec_stats, sec_accepted>>
           ELSE /\ sec_ret' = "OK"
                /\ sec_ctx' = [sec_ctx EXCEPT !.last_nonce = p.nonce]
                /\ sec_stats' = [sec_stats EXCEPT !.packets_decrypted = @ + 1]
                /\ sec_accepted' = sec_accepted \cup {p}
  /\ UNCHANGED sec_nonces

NextSec ==
  \/ security_encrypt
  \/ \E p \in Arriving : security_decrypt(p)

\* ------------------------------------------------------------------------
\* audio_buffer_sequence_gap (audio_buffer.c): the number of frames missing
\* between the sequence number expected and the one that came.
\* ------------------------------------------------------------------------
\* sequence numbers next to both ends of uint16_t
MaxGapSeq == 3

GapSeqs == 0..MaxGapSeq \cup (UINT16 - 1 - MaxGapSeq)..(UINT16 - 1)

\* no call made yet
NoGap == -1

GapBoot(e, r) ==
  /\ gap_expected = e
  /\ gap_received = r
  /\ gap_ret = NoGap

audio_buffer_sequence_gapShort(expected, received) ==
  IF received >= expected
    THEN (received - expected) % UINT16
    ELSE ((65535 - expected) + received) % UINT16

\* the sums are made in int and returned as uint16_t
audio_buffer_sequence_gap(expected, received) ==
  IF received >= expected
    THEN (received - expected) % UINT16
    ELSE ((65535 - expected) + received + 1) % UINT16

SequenceGapCall ==
  /\ gap_ret = NoGap
  /\ gap_ret' = audio_buffer_sequence_gap(gap_expected, gap_received)
  /\ UNCHANGED <<gap_expected, gap_received>>
  /\ UNCHANGED <<ringVars, spscVars, dialVars, callVars, protoVars, radioVars, jitVars, idVars, secVars, recVars, halVars, tokVars, voiceVars, talkVars>>

NextGap == SequenceGapCall

\* ------------------------------------------------------------------------
\* The two rings of main.c: g_playback_buffer, whose jitter depth init_system
\* sets, and g_record_buffer. The depth is one static of audio_buffer.c.
\* ------------------------------------------------------------------------
\* audio_buffer_init(&g_record_buffer)
RecordBoot ==
  /\ rec_write_idx = 0
  /\ rec_read_idx = 0

RecordStep ==
  UNCHANGED <<ringVars, spscVars, dialVars, callVars, protoVars, radioVars, jitVars, idVars, secVars, gapVars, halVars, tokVars, voiceVars, talkVars>>

\* audio_buffer_count(&g_record_buffer)
RecordCount ==
  IF rec_write_idx >= rec_read_idx
    THEN (rec_write_idx - rec_read_idx) % UINT8
    ELSE (AUDIO_BUFFER_FRAMES - rec_read_idx + rec_write_idx) % UINT8

\* audio_buffer_jitter_ready(&g_record_buffer)
RecordJitterReady == RecordCount >= g_jitter_depth

\* audio_buffer_write(&g_record_buffer, ...), as far as the indices go
RecordWrite ==
  /\ ~FullAt(rec_write_idx, rec_read_idx)
  /\ rec_write_idx' = NextIdx(rec_write_idx)
  /\ UNCHANGED rec_read_idx
  /\ RecordStep

\* audio_buffer_read(&g_record_buffer, ...), as far as the indices go
RecordRead ==
  /\ ~EmptyAt(rec_write_idx, rec_read_idx)
  /\ rec_read_idx' = NextIdx(rec_read_idx)
  /\ UNCHANGED rec_write_idx
  /\ RecordStep

NextBuffers ==
  \/ \E n \in JitterDepths : audio_buffer_set_jitter_depth(n)
  \/ RecordWrite
  \/ RecordRead

\* ------------------------------------------------------------------------
\* The audio driver (audio.c) after audio_init succeeded: the calls that
\* start and stop the two directions.
\* ------------------------------------------------------------------------
MaxHalCalls == 3

HalBoot ==
  /\ hal_state = "IDLE"
  /\ hal_capture = "NULL"
  /\ hal_playback = "NULL"
  /\ hal_log = <<>>

\* audio_start_recording(buffer): returns at once when already recording
audio_start_recording(g) ==
  IF g \in {"RECORDING", "DUPLEX"} THEN g ELSE "RECORDING"

HalCall(op) ==
  /\ Len(hal_log) < MaxHalCalls
  /\ hal_log' = Append(hal_log, op)
  /\ UNCHANGED <<ringVars, spscVars, dialVars, callVars, protoVars, radioVars, jitVars, idVars, secVars, gapVars, recVars, tokVars, voiceVars, talkVars>>

HalStartRecording ==
  /\ HalCall("start_recording")
  /\ hal_state' = audio_start_recording(hal_state)
  /\ hal_capture' = IF audio_is_recording(hal_state) THEN hal_capture ELSE "buffer"
  /\ UNCHANGED hal_playback

HalStartRecordingCallback ==
  /\ HalCall("start_recording_callback")
  /\ hal_state' = audio_start_recording_callback(hal_state)
  /\ hal_capture' = "callback"
  /\ UNCHANGED hal_playback

HalStopRecording ==
  /\ HalCall("stop_recording")
  /\ hal_state' = audio_stop_recording(hal_state)
  /\ hal_capture' = IF audio_is_recording(hal_state) THEN "NULL" ELSE hal_capture
  /\ UNCHANGED hal_playback

HalStartPlayback ==
  /\ HalCall("start_playback")
  /\ hal_state' = audio_start_playback(hal_state)
  /\ hal_playback' = IF audio_is_playing(hal_state) THEN hal_playback ELSE "buffer"
  /\ UNCHANGED hal_capture

HalStopPlayback ==
  /\ HalCall("stop_playback")
  /\ hal_state' = audio_stop_playback(hal_state)
  /\ hal_playback' = IF audio_is_playing(hal_state) THEN "NULL" ELSE hal_playback
  /\ UNCHANGED hal_capture

NextHal ==
  \/ HalStartRecording
  \/ HalStartRecordingCallback
  \/ HalStopRecording
  \/ HalStartPlayback
  \/ HalStopPlayback

\* ------------------------------------------------------------------------
\* Authentication tokens (device_id.c): ID.TIMESTAMP.SIG16HEX
\* ------------------------------------------------------------------------
\* the clock readings and the timestamps of a run, in seconds
MaxTokenTime == 3

TokenTimes == 0..MaxTokenTime

\* max_age_seconds as callers give it
TokenAges == {0, 1}

\* the first 8 bytes of compute_hmac_sha256 over id || timestamp under
\* HMAC_SECRET_KEY, as 16 hex digits: one value for each id and timestamp
TokenSignature(id, timestamp) == <<"hmac", id, timestamp>>

\* a signature made without the key
ForgedSignature == <<"forged">>

NoToken == [id |-> EmptyString, timestamp |-> 0, sig |-> <<>>]

NoVerify == [token |-> NoToken, expected_id |-> EmptyString, max_age_seconds |-> 0, now |-> 0]

TokenBoot ==
  /\ tok_buffer = NoToken
  /\ tok_op = "boot"
  /\ tok_arg = NoVerify
  /\ tok_ret = FALSE

TokenStep ==
  UNCHANGED <<ringVars, spscVars, dialVars, callVars, protoVars, radioVars, jitVars, idVars, secVars, gapVars, recVars, halVars, voiceVars, talkVars>>

\* device_id_create_auth_token(buffer, 80, timestamp)
device_id_create_auth_token(timestamp) ==
  /\ tok_op' = "create"
  /\ IF ~id_initialized
       THEN tok_ret' = FALSE /\ UNCHANGED tok_buffer
       ELSE /\ tok_buffer' = [id |-> g_device_id.string, timestamp |-> timestamp,
                              sig |-> TokenSignature(g_device_id.string, timestamp)]
            /\ tok_ret' = TRUE
  /\ UNCHANGED tok_arg
  /\ TokenStep

\* now > timestamp && (now - timestamp) > max_age_seconds
TokenExpired(now, timestamp, max_age_seconds) ==
  now > timestamp /\ now - timestamp > max_age_seconds

\* the value device_id_verify_auth_token returns for a token that sscanf
\* splits into its three fields
TokenValid(token, expected_id, max_age_seconds, now) ==
  /\ token.id = expected_id
  /\ ~TokenExpired(now, token.timestamp, max_age_seconds)
  /\ token.sig = TokenSignature(token.id, token.timestamp)

device_id_verify_auth_token(token, expected_id, max_age_seconds, now) ==
  /\ tok_op' = "verify"
  /\ tok_arg' = [token |-> token, expected_id |-> expected_id,
                 max_age_seconds |-> max_age_seconds, now |-> now]
  /\ tok_ret' = TokenValid(token, expected_id, max_age_seconds, now)
  /\ UNCHANGED tok_buffer
  /\ TokenStep

\* the tokens a verifier is given once a token was made: that token, and the
\* token with a signature made without the key
TokensSeen ==
  IF tok_buffer = NoToken THEN {}
  ELSE {tok_buffer, [tok_buffer EXCEPT !.sig = ForgedSignature]}

NextToken ==
  \/ device_id_init
  \/ \E timestamp \in TokenTimes : device_id_create_auth_token(timestamp)
  \/ \E token \in TokensSeen :
       \E expected_id \in {token.id, 10000000}, max_age_seconds \in TokenAges,
          now \in TokenTimes :
         device_id_verify_auth_token(token, expected_id, max_age_seconds, now)

\* ------------------------------------------------------------------------
\* Voice: protocol_send_voice on device A, the radio, and on device B
\* protocol_handle_received with on_protocol_message of main.c, which writes
\* to g_playback_buffer (the ring of this module).
\* ------------------------------------------------------------------------
AUDIO_FRAME_SIZE == 320

DMA_BUF_LEN == 512

\* calls of protocol_send_voice in a run
MaxVoice == 2

\* GET_MILLIS() at the calls
VoiceTime == 1000

\* the audio the capture task hands over: a few bytes, or all the bytes of its
\* DMA buffer
VoiceAudio == {Pattern(n) : n \in {4, 2 * DMA_BUF_LEN}}

\* what the part of voice.audio_data behind audio_len holds: the struct is a
\* local that is not cleared
VoiceFill == {0, UINT8 - 1}

NoAir == [from |-> "", bytes |-> <<>>, len |-> 0, audio |-> <<>>]

NoRx == [handled |-> FALSE, parsed |-> FALSE, voice |-> FALSE, connected |-> FALSE, wrote |-> 0,
         samples |-> <<>>]

\* the statics of protocol.c that a build may place behind g_tx_buffer
Behind == {"g_rx_buffer", "g_voice_sequence"}

VoiceBoot(behind, fill) ==
  /\ g_voice_sequence = 0
  /\ v_behind = behind
  /\ v_fill = fill
  /\ v_seqs = <<>>
  /\ v_air = NoAir
  /\ v_rx = NoRx

VoiceStep ==
  UNCHANGED <<spscVars, dialVars, callVars, protoVars, radioVars, jitVars, idVars, secVars, gapVars, recVars, halVars, tokVars, talkVars>>

\* voice.audio_len
VoiceLen(audio_len) == IF audio_len > AUDIO_BUFFER_SIZE THEN AUDIO_BUFFER_SIZE ELSE audio_len

\* the bytes of the voice_data_t that protocol_send_voice fills
VoiceBytes(sequence, audio, fill) ==
  <<Lo(VoiceTime % UINT16), Hi(VoiceTime % UINT16), 0, 0,
    Lo(sequence), Hi(sequence),
    Lo(VoiceLen(Len(audio))), Hi(VoiceLen(Len(audio)))>>
  \o [i \in 1..AUDIO_BUFFER_SIZE |-> IF i <= VoiceLen(Len(audio)) THEN audio[i] ELSE fill]

\* g_voice_sequence++ on a uint16_t
NextVoiceSequence(sequence) == (sequence + 1) % UINT16

\* protocol_build_packet writes the packet to g_tx_buffer, which holds
\* MAX_PACKET_SIZE bytes: the bytes written behind its end land in the static
\* that the build placed there
Overflow(pkt) == SubSeq(pkt, MAX_PACKET_SIZE + 1, Len(pkt))

SequenceAfter(sequence, pkt, behind) ==
  IF behind = "g_voice_sequence" /\ Len(Overflow(pkt)) >= 2
    THEN U16(Overflow(pkt)[1], Overflow(pkt)[2])
    ELSE NextVoiceSequence(sequence)

\* protocol_send_voice(audio_data, audio_len) on A, and radio_send, which
\* takes the length as uint8_t and refuses 0 and more than
\* RADIO_MAX_PACKET_SIZE
protocol_send_voice(audio) ==
  /\ Len(v_seqs) < MaxVoice
  /\ \E b \in {protocol_build_packet(MSG_VOICE_DATA, LocalId, LocalId,
                                      VoiceBytes(g_voice_sequence, audio, v_fill))} :
       /\ v_air' = IF RadioAccepts(RadioLength(b.len))
                     THEN [from |-> "A", bytes |-> b.bytes, len |-> b.len, audio |-> audio]
                     ELSE v_air
       /\ g_voice_sequence' = SequenceAfter(g_voice_sequence, b.bytes, v_behind)
  /\ v_seqs' = Append(v_seqs, g_voice_sequence)
  /\ UNCHANGED <<v_behind, v_fill, v_rx>>
  /\ UNCHANGED ringVars
  /\ VoiceStep

\* the packet of a station that runs other firmware: VOICE_DATA with the
\* longest payload a radio packet holds
ForeignPacket ==
  protocol_build_packet(MSG_VOICE_DATA, PeerId, PeerId, Pattern(RADIO_MAX_PACKET_SIZE - HeaderSize))

ForeignVoice ==
  /\ v_air = NoAir
  /\ v_air' = [from |-> "X", bytes |-> ForeignPacket.bytes, len |-> ForeignPacket.len,
               audio |-> <<>>]
  /\ UNCHANGED <<g_voice_sequence, v_behind, v_fill, v_seqs, v_rx>>
  /\ UNCHANGED ringVars
  /\ VoiceStep

\* a byte of the voice_data_t the payload pointer is cast to; behind the
\* payload it is whatever follows in the receive buffer
ByteAt(payload, i) == IF i <= Len(payload) THEN payload[i] ELSE 0

VoiceFitsAlways(len) == TRUE

\* len >= sizeof(voice_data_t)
VoiceFits(len) == len >= VoiceSize

\* frame->length and frame->samples of audio_buffer_write
FrameSamples(payload) ==
  LET audio_len == U16(ByteAt(payload, 7), ByteAt(payload, 8))
      length == IF audio_len > AUDIO_FRAME_SIZE THEN AUDIO_FRAME_SIZE ELSE audio_len
  IN  [i \in 1..length |-> ByteAt(payload, 8 + i)]

\* B's radio hands over what arrived: the first bytes of the packet, as many
\* as the length radio_send was given (whole = FALSE), or the packet as it
\* was built (whole = TRUE).  protocol_handle_received parses it and calls
\* on_protocol_message, whose case MSG_VOICE_DATA writes to g_playback_buffer.
\* The ring carries a frame's data as one number, here frame->length; the
\* bytes copied to frame->samples are kept in v_rx.
VoiceReceive(whole) ==
  /\ v_air # NoAir
  /\ v_air' = NoAir
  /\ \E buf \in {IF whole THEN v_air.bytes
                  ELSE SubSeq(v_air.bytes, 1, RadioLength(v_air.len))} :
     \E h \in {protocol_parse_packet(buf)} :
       LET voice == h.ok /\ h.msg_type = MSG_VOICE_DATA
           write == voice /\ VoiceFits(h.payload_len)
       IN /\ IF write
               THEN IF FullAt(write_idx, read_idx)
                      THEN WriteDrop /\ UNCHANGED next_sequence
                      ELSE /\ WriteCommit(Frame(next_sequence, Len(FrameSamples(h.payload)), TRUE))
                           /\ next_sequence' = (next_sequence + 1) % UINT16
               ELSE UNCHANGED <<frames, write_idx, writeLog, ret, next_sequence>>
          /\ v_rx' = [handled |-> TRUE, parsed |-> h.ok, voice |-> voice,
                      connected |-> ctx["B"].is_connected,
                      wrote |-> IF write /\ ~FullAt(write_idx, read_idx) THEN 1 ELSE 0,
                      samples |-> IF write /\ ~FullAt(write_idx, read_idx)
                                    THEN FrameSamples(h.payload) ELSE <<>>]
  /\ UNCHANGED <<g_voice_sequence, v_behind, v_fill, v_seqs>>
  /\ UNCHANGED <<read_idx, out, lastOp, plan, tick, nClears, readLog, gone>>
  /\ VoiceStep

NextVoice ==
  \/ \E audio \in VoiceAudio : protocol_send_voice(audio)
  \/ ForeignVoice
  \/ \E whole \in BOOLEAN : VoiceReceive(whole)
  \/ Foreign("B", "CALL_ACCEPT")
  \/ \E m \in air : Deliver("B", m)

\* ------------------------------------------------------------------------
\* Transmission of voice (main.c): the audio task calls on_audio_captured,
\* the main loop polls the buttons and the radio and calls
\* handle_audio_transmission.
\* ------------------------------------------------------------------------
MaxTalkSent == 2

TalkModes == {"ALWAYS", "PTT", "MUTED"}

TalkBoot ==
  /\ g_is_transmitting = FALSE
  /\ ctx_is_connected = FALSE
  /\ ctx_is_muted = FALSE
  /\ current_talk_mode = "PTT"
  /\ ptt_pressed = FALSE
  /\ capture_pc = "idle"
  /\ talk_sent = <<>>

TalkStep ==
  /\ UNCHANGED <<hal_playback, hal_log>>
  /\ UNCHANGED <<ringVars, spscVars, dialVars, callVars, protoVars, radioVars, jitVars, idVars, secVars, gapVars, recVars, tokVars, voiceVars>>

\* the audio task after audio_stop_recording returned: from RECORDING the
\* call deletes the task, from DUPLEX the task runs on
TaskAfterStop(g, pc) == IF g = "RECORDING" THEN "idle" ELSE pc

\* the driver after audio_start_recording_callback(on_audio_captured)
StartCapture ==
  /\ hal_state' = audio_start_recording_callback(hal_state)
  /\ hal_capture' = "callback"

\* the driver and the audio task after audio_stop_recording()
StopCapture ==
  /\ hal_state' = audio_stop_recording(hal_state)
  /\ hal_capture' = IF audio_is_recording(hal_state) THEN "NULL" ELSE hal_capture
  /\ capture_pc' = TaskAfterStop(hal_state, capture_pc)

\* on_protocol_message, case MSG_CALL_ACCEPT, called from the main loop's
\* radio_update
CallAccepted ==
  /\ ~ctx_is_connected
  /\ ctx_is_connected' = TRUE
  /\ hal_state' = audio_start_playback(hal_state)
  /\ UNCHANGED <<hal_capture, g_is_transmitting, ctx_is_muted, current_talk_mode, ptt_pressed,
                 capture_pc, talk_sent>>
  /\ TalkStep

\* handle_in_call_button, BTN_GREEN pressed: toggle mute
PressGreen ==
  /\ ctx_is_connected
  /\ ctx_is_muted' = ~ctx_is_muted
  /\ UNCHANGED <<hal_state, hal_capture, g_is_transmitting, ctx_is_connected, current_talk_mode,
                 ptt_pressed, capture_pc, talk_sent>>
  /\ TalkStep

\* handle_in_call_button, BTN_RED pressed: end the call
PressRed ==
  /\ ctx_is_connected
  /\ ctx_is_connected' = FALSE
  /\ UNCHANGED <<hal_state, hal_capture, g_is_transmitting, ctx_is_muted, current_talk_mode,
                 ptt_pressed, capture_pc, talk_sent>>
  /\ TalkStep

\* the PTT button goes down or up
PressPtt ==
  /\ ptt_pressed' = ~ptt_pressed
  /\ UNCHANGED <<hal_state, hal_capture, g_is_transmitting, ctx_is_connected, ctx_is_muted,
                 current_talk_mode, capture_pc, talk_sent>>
  /\ TalkStep

\* scan_switches finds the slide switch in a new position and calls
\* on_talk_mode_change
on_talk_mode_change(mode) ==
  /\ mode # current_talk_mode
  /\ current_talk_mode' = mode
  /\ ctx_is_muted' = (mode = "MUTED")
  /\ CASE mode = "ALWAYS" /\ ctx_is_connected /\ ~audio_is_recording(hal_state) ->
            StartCapture /\ UNCHANGED capture_pc
       [] mode = "MUTED" /\ audio_is_recording(hal_state) -> StopCapture
       [] OTHER -> UNCHANGED <<hal_state, hal_capture, capture_pc>>
  /\ UNCHANGED <<g_is_transmitting, ctx_is_connected, ptt_pressed, talk_sent>>
  /\ TalkStep

\* handle_audio_transmission(), once in every turn of main_loop
HandleAudioTransmission ==
  /\ IF ~ctx_is_connected \/ ctx_is_muted
       THEN IF g_is_transmitting
              THEN /\ g_is_transmitting' = FALSE
                   /\ IF audio_is_recording(hal_state)
                        THEN StopCapture
                        ELSE UNCHANGED <<hal_state, hal_capture, capture_pc>>
              ELSE UNCHANGED <<g_is_transmitting, hal_state, hal_capture, capture_pc>>
       ELSE LET should_transmit == buttons_is_transmitting(current_talk_mode, ptt_pressed)
            IN  CASE should_transmit /\ ~g_is_transmitting ->
                       /\ g_is_transmitting' = TRUE
                       /\ StartCapture
                       /\ UNCHANGED capture_pc
                  [] ~should_transmit /\ g_is_transmitting /\ current_talk_mode = "PTT" ->
                       /\ g_is_transmitting' = FALSE
                       /\ StopCapture
                  [] OTHER -> UNCHANGED <<g_is_transmitting, hal_state, hal_capture, capture_pc>>
  /\ UNCHANGED <<ctx_is_connected, ctx_is_muted, current_talk_mode, ptt_pressed, talk_sent>>
  /\ TalkStep

\* audio_task has read a DMA buffer and calls g_capture_callback:
\* on_audio_captured tests g_is_transmitting && g_device_ctx.is_connected
on_audio_captured ==
  /\ capture_pc = "idle"
  /\ audio_is_recording(hal_state) /\ hal_capture = "callback"
  /\ Len(talk_sent) < MaxTalkSent
  /\ capture_pc' = IF g_is_transmitting /\ ctx_is_connected THEN "send" ELSE "idle"
  /\ UNCHANGED <<hal_state, hal_capture, g_is_transmitting, ctx_is_connected, ctx_is_muted,
                 current_talk_mode, ptt_pressed, talk_sent>>
  /\ TalkStep

\* on_audio_captured calls protocol_send_voice, which hands the packet to
\* the radio
CaptureSend ==
  /\ capture_pc = "send"
  /\ capture_pc' = "idle"
  /\ talk_sent' = Append(talk_sent, [is_muted |-> ctx_is_muted, is_connected |-> ctx_is_connected])
  /\ UNCHANGED <<hal_state, hal_capture, g_is_transmitting, ctx_is_connected, ctx_is_muted,
                 current_talk_mode, ptt_pressed>>
  /\ TalkStep

NextTalk ==
  \/ CallAccepted
  \/ PressGreen
  \/ PressRed
  \/ PressPtt
  \/ \E mode \in TalkModes : on_talk_mode_change(mode)
  \/ HandleAudioTransmission
  \/ on_audio_captured
  \/ CaptureSend

LateBoot == GapBoot(0, 0) /\ RecordBoot /\ HalBoot /\ TokenBoot /\ VoiceBoot("g_rx_buffer", 0) /\ TalkBoot

RestBoot == RadioBoot /\ JitterBoot /\ IdBoot(12345678) /\ SecBoot(security_context_init(0, FALSE)) /\ LateBoot

AppBoot == CallBoot /\ ProtoBoot(<<>>) /\ RestBoot

vars == <<ringVars, spscVars, dialVars, appVars>>

InitRing == RingInit /\ SpscIdle /\ DialBoot({}) /\ AppBoot /\ plan \in {"capture", "rx", "mixed"}

InitFifo == RingInit /\ SpscIdle /\ DialBoot({}) /\ AppBoot /\ plan \in {"capture", "rx"}

SpecRing == InitRing /\ [][NextRing]_vars

SpecFifo == InitFifo /\ [][NextFifo]_vars

SpecSPSC == InitFifo /\ [][NextSPSC]_vars

\* the ring at rest while the dial manager runs
RingIdle == RingInit /\ SpscIdle /\ plan = "capture"

\* nothing in storage, or every position the UI uses
InitDial == RingIdle /\ AppBoot /\ \E nvs \in {{}, Pos} : DialBoot(nvs)

SpecDial == InitDial /\ [][NextDial]_vars

\* A run that fills the thread table: all 15 positions are in storage, the
\* UI connects the lowest slot that is neither CONNECTING nor CONNECTED, in
\* its first calls also slot 0 again; the connection tasks of slot 0 run,
\* the others are still waiting for their response.
FillTargets ==
  LET idle == {p \in Positions : slots[p].state \notin {"CONNECTING", "CONNECTED"}}
  IN (IF idle = {} THEN {} ELSE {Lowest(idle)})
       \cup (IF calls < MaxRepeats THEN {0} ELSE {})

NextFill ==
  \/ calls < MaxFillCalls /\ \E p \in FillTargets : UI_connect(p)
  \/ UI_take
  \/ \E created \in BOOLEAN : UI_create(created)
  \/ TaskStep({0})

InitFill == RingIdle /\ AppBoot /\ DialBoot(Positions)

InitCall == RingIdle /\ DialBoot({}) /\ AppBoot

SpecCall == InitCall /\ [][NextCall]_vars

InitProto == RingIdle /\ DialBoot({}) /\ CallBoot /\ RestBoot /\ \E args \in BuildInputs : ProtoBoot(args)

SpecProto == InitProto /\ [][NextProto]_vars

InitJitter == RingIdle /\ DialBoot({}) /\ AppBoot

SpecJitter == InitJitter /\ [][NextJitter]_vars

InitId ==
  /\ RingIdle /\ DialBoot({}) /\ CallBoot /\ ProtoBoot(<<>>) /\ RadioBoot /\ JitterBoot
  /\ SecBoot(security_context_init(0, FALSE)) /\ LateBoot
  /\ \E digits \in GeneratedDigits : IdBoot(digits)

InitSec ==
  /\ RingIdle /\ DialBoot({}) /\ CallBoot /\ ProtoBoot(<<>>) /\ RadioBoot /\ JitterBoot
  /\ IdBoot(12345678) /\ LateBoot
  /\ \E base \in NonceBases, agreed \in BOOLEAN : SecBoot(security_context_init(base, agreed))

SpecSec == InitSec /\ [][NextSec]_vars

SpecId == InitId /\ [][NextId]_vars

InitRadio == RingIdle /\ DialBoot({}) /\ AppBoot

SpecRadio == InitRadio /\ [][NextRadio]_vars


SpecFill == InitFill /\ [][NextFill]_vars

InitGap ==
  /\ RingIdle /\ DialBoot({}) /\ CallBoot /\ ProtoBoot(<<>>) /\ RadioBoot /\ JitterBoot
  /\ IdBoot(12345678) /\ SecBoot(security_context_init(0, FALSE))
  /\ RecordBoot /\ HalBoot /\ TokenBoot /\ VoiceBoot("g_rx_buffer", 0) /\ TalkBoot
  /\ \E e \in GapSeqs, r \in GapSeqs : GapBoot(e, r)

SpecGap == InitGap /\ [][NextGap]_vars

InitBuffers == RingIdle /\ DialBoot({}) /\ AppBoot

SpecBuffers == InitBuffers /\ [][NextBuffers]_vars

InitHal == RingIdle /\ DialBoot({}) /\ AppBoot

SpecHal == InitHal /\ [][NextHal]_vars

InitToken == RingIdle /\ DialBoot({}) /\ AppBoot

SpecToken == InitToken /\ [][NextToken]_vars

InitTalk == RingIdle /\ DialBoot({}) /\ AppBoot

SpecTalk == InitTalk /\ [][NextTalk]_vars

InitVoice ==
  /\ RingIdle /\ DialBoot({}) /\ CallBoot /\ ProtoBoot(<<>>) /\ RadioBoot /\ JitterBoot
  /\ IdBoot(12345678) /\ SecBoot(security_context_init(0, FALSE))
  /\ GapBoot(0, 0) /\ RecordBoot /\ HalBoot /\ TokenBoot /\ TalkBoot
  /\ \E behind \in Behind, fill \in VoiceFill : VoiceBoot(behind, fill)

SpecVoice == InitVoice /\ [][NextVoice]_vars


\* ------------------------------------------------------------------------
\* Properties of the ring buffer
\* ------------------------------------------------------------------------
IsPrefix(s, t) == Len(s) <= Len(t) /\ s = SubSeq(t, 1, Len(s))

\* C1: after any sequence of ring API calls, count = (write_idx - read_idx)
\* mod 32 and lies in 0..31, is_empty holds exactly when write_idx = read_idx
\* (no frame is counted), is_full exactly when (write_idx + 1) mod 32 =
\* read_idx (31 frames are counted).
C1_IndexInvariants ==
  /\ write_idx \in Slots
  /\ read_idx \in Slots
  /\ audio_buffer_count = (write_idx - read_idx) % AUDIO_BUFFER_FRAMES
  /\ audio_buffer_count \in 0 .. (AUDIO_BUFFER_FRAMES - 1)
  /\ audio_buffer_is_empty <=> write_idx = read_idx
  /\ audio_buffer_is_empty <=> audio_buffer_count = 0
  /\ audio_buffer_is_full <=> (write_idx + 1) % AUDIO_BUFFER_FRAMES = read_idx
  /\ audio_buffer_is_full <=> audio_buffer_count = AUDIO_BUFFER_FRAMES - 1

\* the indices have wrapped: the write index is behind the read index
C1_Witness == write_idx < read_idx /\ lastOp = "read" /\ ret

\* C2: on a full ring audio_buffer_write and audio_buffer_write_frame return
\* false and leave write_idx, read_idx and every stored frame as they were.
C2_FullWriteDrops ==
  [][(/\ audio_buffer_is_full
      /\ \/ audio_buffer_write(tick + 1)
         \/ \E f \in InFrames : audio_buffer_write_frame(f))
     => /\ ret' = FALSE
        /\ write_idx' = write_idx
        /\ read_idx' = read_idx
        /\ frames' = frames]_vars

\* a write_frame call was refused on a full ring
C2_Witness == lastOp = "write_frame" /\ ~ret /\ audio_buffer_is_full

\* C3: audio_buffer_read on an empty ring returns false, writes no output
\* frame and moves no index; a successful read returns a frame that no
\* earlier read returned and no skip consumed.
C3_ReadEmptyOrFresh ==
  [][audio_buffer_read
     => IF audio_buffer_is_empty
          THEN /\ ret' = FALSE
               /\ out' = out
               /\ write_idx' = write_idx
               /\ read_idx' = read_idx
          ELSE /\ ret' = TRUE
               /\ out' \notin gone]_vars

\* a read succeeded from a slot that held consumed frames before (the ring
\* has been gone round), and a read failed on the emptied ring
C3_Witness == lastOp = "read" /\ ~ret /\ Cardinality(gone) > AUDIO_BUFFER_FRAMES

\* C4: the frames returned by read are the frames accepted by write and
\* write_frame, each once and in the order written; the frames not yet
\* returned are the ones the ring counts.
C4_Fifo ==
  /\ IsPrefix(readLog, writeLog)
  /\ Len(writeLog) - Len(readLog) = audio_buffer_count

\* more frames were read than the ring has slots
C4_Witness == Len(readLog) > AUDIO_BUFFER_FRAMES /\ lastOp = "read" /\ ret

\* C5: with one writer task and one reader task interleaved load by load and
\* store by store, every frame the reader has obtained is a frame the writer
\* stored completely, in the order written, none lost and none twice, and
\* the index invariants hold.
C5_SpscSafe ==
  /\ IsPrefix(readLog, writeLog)
  /\ \A i \in 1 .. Len(readLog) : readLog[i].valid
  /\ write_idx \in Slots
  /\ read_idx \in Slots
  /\ audio_buffer_count = Len(writeLog) - Len(readLog)
  /\ audio_buffer_count \in 0 .. (AUDIO_BUFFER_FRAMES - 1)

\* the reader is copying a frame out while the writer is filling another
\* slot, after the indices have wrapped
C5_Witness ==
  /\ write_idx < read_idx
  /\ Len(readLog) > 0
  /\ wpc = "data"
  /\ rpc = "data"

\* ------------------------------------------------------------------------
\* Claims about the dial manager
\* ------------------------------------------------------------------------
HasWorker(p) == task_handle[p] # "NULL"

\* no call of the API is in progress and no connection task is inside a
\* section guarded by the mutex
Quiet == ui_pc = "idle" /\ mutex = "free"

\* a call of op returns in this step
Returns(op) == ui_op' = op /\ ui_pc' = "idle" /\ (ui_pc # "idle" \/ calls' # calls)

\* C6: active_threads is at most 15 and equals the number of slots whose
\* task handle is non-null.  Stated for the states in which no call is in
\* progress and no task is inside a guarded section, where the count and the
\* handles are not in the middle of an update.
C6_ThreadCount ==
  Quiet =>
    /\ active_threads <= MAX_DIAL_THREADS
    /\ active_threads = Cardinality({p \in Positions : HasWorker(p)})

\* C7: at every instant at most one of the 15 slots has is_active_audio set.
C7_OneActiveAudio ==
  Cardinality({p \in Positions : slots[p].is_active_audio}) <= 1

\* C8: whenever no operation is in progress, a slot is CONNECTED or
\* CONNECTING if and only if it has a worker (a non-null task handle).
C8_StateIffWorker ==
  Quiet =>
    \A p \in Positions :
      (slots[p].state \in {"CONNECTED", "CONNECTING"}) <=> HasWorker(p)

\* C9: after 15 successful connect calls a 16th connect call returns failure
\* and active_threads is still 15.  Stated for the calls the limit is about:
\* calls on a configured slot that is not CONNECTED.
C9_SixteenthRefused ==
  [][(/\ connects_ok = MAX_DIAL_THREADS
      /\ Returns("connect")
      /\ slots[ui_pos'].is_configured
      /\ slots[ui_pos'].state # "CONNECTED")
       => (~ui_ret' /\ active_threads' = MAX_DIAL_THREADS)]_vars

\* C10: when dial_manager_disconnect(i) returns, slot i has no worker and is
\* SAVED if configured, otherwise EMPTY; when dial_manager_disconnect_all
\* returns, no slot has a worker, no worker task is still running and
\* active_threads is 0.
C10_DisconnectReleases ==
  [][/\ Returns("disconnect") =>
          /\ ~HasWorker(ui_pos)'
          /\ slots'[ui_pos'].state =
                (IF slots'[ui_pos'].is_configured THEN "SAVED" ELSE "EMPTY")
     /\ Returns("disconnect_all") =>
          /\ \A p \in Positions : ~HasWorker(p)'
          /\ LiveTasks' = 0
          /\ active_threads' = 0]_vars


\* a call of dial_manager_set_position, by the UI or by dial_manager_rotate
Moving == ui_op \in {"set_position", "rotate"}

\* C11: rotate(+1), rotate(-1) and set_position(i) always return with the
\* cursor at the new position, and if the slot there is CONNECTED it is the
\* one audio-active slot when the call returns.  "Always return": a call in
\* progress can take its next step, or waits for a mutex that a running
\* connection task holds.
C11_CursorMoves ==
  /\ [](Moving /\ ui_pc # "idle" => (ENABLED UiStep) \/ mutex = "worker")
  /\ [][(Returns("set_position") \/ Returns("rotate")) =>
          /\ current_position' = ui_pos'
          /\ slots'[ui_pos'].state = "CONNECTED" =>
                {p \in Positions : slots'[p].is_active_audio} = {ui_pos'}]_vars

\* what the claim of C12 calls a write: a slot's state or flags, whether a
\* slot has a task handle, the cursor, active_threads
Written == <<slots, {p \in Positions : HasWorker(p)}, current_position, active_threads>>

\* C12: every write to a slot's state, task handle or flags, to the cursor
\* and to active_threads is made by a task that holds the mutex: the UI task
\* when the step is one of the UI task, a connection task otherwise.
C12_WritesUnderMutex ==
  [][Written' # Written =>
       mutex = (IF uiVars' # uiVars THEN "ui" ELSE "worker")]_vars

\* a step of device_update that takes d out of the message "Timeout", with no
\* button pressed and no packet received
Dismissed(d) ==
  /\ ctx[d].current_state = "MESSAGE"
  /\ ctx[d].message_title = "Timeout"
  /\ ctx'[d] = device_update(ctx[d])
  /\ ctx'[d].current_state # "MESSAGE"
  /\ presses' = presses
  /\ air' = air

\* C13: a device that waited in WAITING for CALL_TIMEOUT without a response
\* shows the message "Timeout", and when the message clears by itself the
\* device is in IDLE.
C13_TimeoutToIdle ==
  [][\A d \in Dev : Dismissed(d) => ctx'[d].current_state = "IDLE"]_vars

\* the user of d accepts the incoming request while the peer waits
Accepts(d) ==
  /\ ctx[d].current_state = "INCOMING_REQUEST"
  /\ ctx[Peer(d)].current_state = "WAITING_RESPONSE"
  /\ presses' # presses
  /\ ctx'[d].is_connected

\* C14: when the user of B accepts the request of A, which waits in WAITING,
\* B is connected and an accept from B to A is on the air.
C14_AcceptIsSent ==
  [][\A d \in Dev : Accepts(d) =>
        /\ ctx'[d].current_state = "IN_CALL"
        /\ \E m \in air' : m.type = "CALL_ACCEPT" /\ m.src = d /\ m.dst = Peer(d)]_vars

\* the user of d ends the call that d and its peer are in
HangsUp(d) ==
  /\ ctx[d].current_state = "IN_CALL"
  /\ ctx[d].is_connected
  /\ ctx[Peer(d)].current_state = "IN_CALL"
  /\ ctx[Peer(d)].is_connected
  /\ presses' # presses
  /\ ctx'[d].current_state = "IDLE"

\* C15: when the user of a device in a call ends it, the device is
\* disconnected and a CALL_END from it to the peer is on the air.
C15_HangUpIsSent ==
  [][\A d \in Dev : HangsUp(d) =>
        /\ ~ctx'[d].is_connected
        /\ \E m \in air' : m.type = "CALL_END" /\ m.src = d /\ m.dst = Peer(d)]_vars

\* the packet that was built came back as it was sent
Echoed == p_op = "receive" /\ p_rx = p_pkt

\* C16: for every message type, source id and payload, parsing the bytes that
\* protocol_build_packet returned succeeds and gives back the message type,
\* the source id, the payload length and the payload bytes given to build.
C16_RoundTrip ==
  Echoed /\ p_args.src_id # <<>> =>
    /\ p_parsed.ok
    /\ p_parsed.msg_type = p_args.msg_type
    /\ p_parsed.src_id = p_args.src_id
    /\ p_parsed.payload_len = Len(p_args.payload)
    /\ p_parsed.payload = p_args.payload

\* C17: protocol_build_packet returns 0 and writes no packet for a payload
\* that does not fit a packet of MAX_PACKET_SIZE bytes, so that every packet
\* it returns is at most MAX_PACKET_SIZE bytes long, header included.
C17_OversizeRejected ==
  p_op = "build" =>
    /\ p_len <= MAX_PACKET_SIZE
    /\ HeaderSize + Len(p_args.payload) > MAX_PACKET_SIZE => p_len = 0

\* what the claim of C18 calls an invalid buffer, read off the bytes
Malformed(buf) ==
  \/ Len(buf) < HeaderSize
  \/ U16(buf[1], buf[2]) # PACKET_MAGIC_VALUE
  \/ buf[3] # PROTOCOL_VERSION
  \/ PayloadLen(buf) > Len(buf) - HeaderSize
  \/ protocol_crc16(Cleared(buf), HeaderSize + PayloadLen(buf)) # Checksum(buf)

\* C18: a buffer that is shorter than a header, has a wrong magic or version,
\* declares more payload than follows the header or fails the CRC check is
\* rejected by protocol_parse_packet, and protocol_handle_received then calls
\* no callback and sends no packet.
C18_InvalidDropped ==
  p_op = "receive" /\ Malformed(p_rx) =>
    /\ ~p_parsed.ok
    /\ p_calls = <<>>
    /\ p_sent = <<>>

\* a MSG_PING, which is answered when it is valid, arrives with a wrong
\* checksum and is dropped
C18_Witness ==
  /\ p_op = "receive"
  /\ p_args.msg_type = MSG_PING
  /\ Len(p_rx) = Len(p_pkt)
  /\ Malformed(p_rx)
  /\ p_parsed.why = "crc"
  /\ p_calls = <<>>
  /\ p_sent = <<>>

\* the buffer received is the packet built with the byte at offset o changed
\* and no other
FlippedAt(o) ==
  /\ p_op = "receive"
  /\ Len(p_rx) = Len(p_pkt)
  /\ \A i \in 1..Len(p_pkt) : p_rx[i] # p_pkt[i] <=> i = o + 1

\* C19: for a packet built with at least 4 payload bytes, changing the byte
\* at offset HeaderSize + 3 to any other value makes protocol_parse_packet
\* reject the packet for its CRC.
C19_FlipDetected ==
  Len(p_args.payload) >= 4 /\ FlippedAt(HeaderSize + 3) =>
    ~p_parsed.ok /\ p_parsed.why = "crc"

C19_Witness ==
  /\ Len(p_args.payload) = 4
  /\ FlippedAt(HeaderSize + 3)
  /\ p_rx[HeaderSize + 4] = UINT8 - 1
  /\ p_parsed.why = "crc"

\* the CALL_REQUEST of the scenario has been built
CallRequestBuilt ==
  /\ p_op = "build"
  /\ p_args.msg_type = MSG_CALL_REQUEST
  /\ p_args.src_id = Ascii(<<1, 2, 3, 4, 5, 6, 7, 8>>)
  /\ p_args.payload = Ascii(<<8, 7, 6, 5, 4, 3, 2, 1>>)

\* the bytes the claim of C20 names, in a frame of n bytes
FrameOf(n) ==
  /\ p_len = n
  /\ Len(p_pkt) = n
  /\ p_pkt[1] = 84
  /\ p_pkt[2] = 87
  /\ p_pkt[3] = 1
  /\ p_pkt[4] = 16
  /\ p_pkt[13] = 8
  /\ p_pkt[14] = 0

\* C20 as stated: the CALL_REQUEST from "12345678" to "87654321" is a frame of
\* exactly 22 bytes, a 14-byte header and the 8-byte payload, with bytes 0-1
\* 0x54 0x57, byte 2 equal to 1, msg_type 0x10 and payload_len 8.
C20_Frame22 == CallRequestBuilt => FrameOf(22)

\* C20, amended: the CALL_REQUEST from "12345678" to "87654321" is a frame of
\* exactly 24 bytes, a 16-byte header and the 8-byte payload, with bytes 0-1
\* 0x54 0x57, byte 2 equal to 1, msg_type 0x10 and payload_len 8 (little-endian
\* at offsets 12-13).
C20_Frame24 == CallRequestBuilt => FrameOf(24)

\* the frame of the scenario, with the checksum 0xAB0A at offsets 14-15 and
\* the target after the header
C20_Witness ==
  /\ CallRequestBuilt
  /\ Len(p_pkt) = 24
  /\ p_pkt[15] = 10
  /\ p_pkt[16] = 171
  /\ SubSeq(p_pkt, 17, 24) = p_args.payload

\* ------------------------------------------------------------------------
\* Claims about blocking, connection and identity
\* ------------------------------------------------------------------------
\* C27: no dial-manager operation blocks forever on the manager mutex: the
\* UI task never waits in xSemaphoreTake for a mutex it holds itself, and the
\* mutex is never left held by a connection task that was deleted.
C27_NoMutexDeadlock ==
  /\ ~(ui_pc = "take" /\ mutex = "ui")
  /\ mutex # "dead"

\* the handler of d receives m in this step
Receives(d, m) == m \in air /\ m.dst = d /\ air' = air \ {m}

\* C28: a device becomes connected only by receiving an accept while it is in
\* WAITING or by its own user accepting while it is in INCOMING.
C28_ConnectedByAccept ==
  [][\A d \in Dev :
       ~ctx[d].is_connected /\ ctx'[d].is_connected =>
          \/ /\ ctx[d].current_state = "WAITING_RESPONSE"
             /\ \E m \in air : m.type = "CALL_ACCEPT" /\ Receives(d, m)
          \/ /\ ctx[d].current_state = "INCOMING_REQUEST"
             /\ presses' # presses]_vars

\* C29: a received CALL_REQUEST whose target id is not the id of the device,
\* or that arrives while the device is not IDLE, does not move the device to
\* INCOMING and does not change its connection record.
C29_RequestFiltered ==
  [][\A d \in Dev : \A m \in air :
       (/\ m.type = "CALL_REQUEST"
        /\ Receives(d, m)
        /\ (m.target # d \/ ctx[d].current_state # "IDLE"))
         => /\ ctx'[d].current_state # "INCOMING_REQUEST"
            /\ ctx'[d].connection_id = ctx[d].connection_id]_vars

\* C30: a device in STATE_IDLE is not connected.
C30_IdleNotConnected ==
  \A d \in Dev : ctx[d].current_state = "IDLE" => ~ctx[d].is_connected

\* C21: when several tasks send at the same time, every frame written to the
\* modem holds the bytes of exactly one built packet, the packet of the task
\* that wrote it, and no transmission that has started is cut by a later send.
C21_SendsAtomic ==
  /\ \A t \in Senders : \A i \in DOMAIN handed[t] : Whole(handed[t][i], <<t, i>>)
  /\ cut = {}

\* C22: when the main loop has handled the PINGs it received, each has been
\* answered with one frame that is the PONG built for it (the PING's source id
\* as payload), and that frame was transmitted, not cut.
C22_PingAnswered ==
  tx_pc["main"] = "idle" =>
    /\ Len(handed["main"]) = tx_n["main"]
    /\ \A i \in DOMAIN handed["main"] :
          /\ Whole(handed["main"][i], <<"main", i>>)
          /\ handed["main"][i] \notin cut

\* the ring that was empty holds what w writes and r reads leave of it, no
\* call having failed, and the jitter depth is 3
AfterWritesReads(w, r) ==
  /\ g_jitter_depth = 3
  /\ tick = w
  /\ Len(writeLog) = w
  /\ Len(readLog) = r

\* C23 as stated: from an empty ring with jitter depth 3, jitter_ready is false
\* after 2 writes, true after a 3rd write, and still true after 1 frame was
\* then read.
C23_ReadyAfterRead ==
  /\ AfterWritesReads(2, 0) => ~audio_buffer_jitter_ready
  /\ AfterWritesReads(3, 0) => audio_buffer_jitter_ready
  /\ AfterWritesReads(3, 1) => audio_buffer_jitter_ready

\* C23, amended: from an empty ring with jitter depth 3, jitter_ready is false
\* after 2 writes, true after a 3rd write, and false again after 1 frame was
\* then read (2 frames are left).
C23_NotReadyAfterRead ==
  /\ AfterWritesReads(2, 0) => ~audio_buffer_jitter_ready
  /\ AfterWritesReads(3, 0) => audio_buffer_jitter_ready
  /\ AfterWritesReads(3, 1) => ~audio_buffer_jitter_ready

C23_Witness ==
  /\ AfterWritesReads(3, 1)
  /\ lastOp = "read"
  /\ audio_buffer_count = 2

\* C24: once an id is in storage, the stored id and the id the device puts in
\* its packets are the same after a restart and after every call other than
\* device_id_generate(force_regenerate = true).
C24_IdStable ==
  [][(nvs_id.present /\ id_calls' # id_calls /\ id_op' # "generate_force") =>
        /\ nvs_id'.string = nvs_id.string
        /\ g_local_device_id' = g_local_device_id]_vars

Encrypted == sec_calls' # sec_calls /\ sec_op' = "encrypt" /\ sec_ret' = "OK"

Decrypted == sec_calls' # sec_calls /\ sec_op' = "decrypt"

\* C25: in one crypto context every successful encrypt advances the nonce
\* counter by exactly one and decrypt never changes it, and no two encrypts
\* under the key of the context use the same nonce.
C25_NonceAdvances ==
  /\ [][/\ Encrypted => sec_ctx'.nonce_counter = sec_ctx.nonce_counter + 1
        /\ Decrypted => sec_ctx'.nonce_counter = sec_ctx.nonce_counter]_vars
  /\ [](\A i, j \in DOMAIN sec_nonces : i # j => sec_nonces[i] # sec_nonces[j])

C25_Witness ==
  /\ Len(sec_nonces) >= 2
  /\ sec_accepted # {}
  /\ sec_op = "encrypt"
  /\ sec_ret = "OK"

\* an accepted packet is presented again, unchanged
Replayed == Decrypted /\ sec_ctx.key_agreed /\ sec_rx' \in sec_accepted

\* C26: an accepted packet that is presented again unchanged is rejected as a
\* replay; the rejection leaves the count of authentication failures as it
\* is and adds one to another counter of the statistics, the replay counter.
C26_ReplayCounted ==
  [][Replayed =>
       /\ sec_ret' = "NONCE"
       /\ sec_stats'.auth_failures = sec_stats.auth_failures
       /\ \E k \in DOMAIN sec_stats \ {"auth_failures"} :
             sec_stats'[k] = sec_stats[k] + 1]_vars

\* ------------------------------------------------------------------------
\* Claims about voice, slots, sequence numbers, tokens and the audio driver
\* ------------------------------------------------------------------------
\* C35 as stated: audio_buffer_sequence_gap returns received - expected when
\* received >= expected and (2^16 - expected) + received + 1 otherwise.
C35_GapAsStated ==
  gap_ret # NoGap =>
    gap_ret = IF gap_received >= gap_expected
                THEN gap_received - gap_expected
                ELSE (UINT16 - gap_expected) + gap_received + 1

\* C35 amended: audio_buffer_sequence_gap returns the difference received -
\* expected mod 2^16, which is (2^16 - expected) + received when received <
\* expected: one sequence number lost at the wrap counts as one.
C35_GapMod ==
  gap_ret # NoGap =>
    /\ gap_ret \in 0..(UINT16 - 1)
    /\ (gap_expected + gap_ret) % UINT16 = gap_received
    /\ gap_received < gap_expected => gap_ret = (UINT16 - gap_expected) + gap_received

C35_Witness == gap_ret = 1 /\ gap_expected = UINT16 - 1 /\ gap_received = 0

\* C40: setting the jitter depth of the playback ring leaves the result of
\* audio_buffer_jitter_ready on the record ring as it was.
C40_DepthPerBuffer ==
  [][(rec_write_idx' = rec_write_idx /\ rec_read_idx' = rec_read_idx)
       => (RecordJitterReady' = RecordJitterReady)]_vars

\* C33: a slot in ERROR leaves ERROR only in dial_manager_disconnect called on
\* it, and a dial_manager_disconnect that returns for a slot leaves it SAVED
\* if it is configured and EMPTY otherwise, never in ERROR.
C33_ErrorUntilDisconnect ==
  [][/\ \A p \in Positions :
          (slots[p].state = "ERROR" /\ slots'[p].state # "ERROR")
            => (ui_op \in {"disconnect", "disconnect_all"} /\ ui_pos = p /\ ui_pc = "disc_state")
     /\ (ui_op = "disconnect" /\ ui_pc # "idle" /\ ui_pc' = "idle")
          => slots'[ui_pos].state = (IF slots'[ui_pos].is_configured THEN "SAVED" ELSE "EMPTY")]_vars

\* C34: a slot whose is_active_audio is set is CONNECTED.
C34_AudioOnlyConnected ==
  \A p \in Positions : slots[p].is_active_audio => slots[p].state = "CONNECTED"

\* a call that starts recording, into a buffer or with a callback
StartsRecording == {"start_recording", "start_recording_callback"}

\* C39: from the idle driver, starting playback and starting recording, in
\* either order, leaves the driver in DUPLEX with a capture target and a
\* playback source bound; a call that starts recording while the driver is
\* PLAYING leaves it PLAYING or DUPLEX.
C39_BothDirections ==
  /\ []((Len(hal_log) = 2 /\ \E r \in StartsRecording :
             hal_log \in {<<"start_playback", r>>, <<r, "start_playback">>})
          => (hal_state = "DUPLEX" /\ hal_capture # "NULL" /\ hal_playback # "NULL"))
  /\ [][(hal_state = "PLAYING" /\ hal_log' # hal_log
           /\ hal_log'[Len(hal_log')] \in StartsRecording)
          => hal_state' \in {"PLAYING", "DUPLEX"}]_vars

\* C38: device_id_verify_auth_token accepts a token only if its timestamp is
\* within max_age_seconds of the verifier's clock, before it or after it.
C38_SkewBounded ==
  (tok_op = "verify" /\ tok_ret)
    => /\ tok_arg.now - tok_arg.token.timestamp <= tok_arg.max_age_seconds
       /\ tok_arg.token.timestamp - tok_arg.now <= tok_arg.max_age_seconds

\* B's protocol_handle_received returns
VoiceHandled == v_air # NoAir /\ v_air' = NoAir

\* C31: a VOICE_DATA packet that B receives while it is not connected adds no
\* frame to B's playback ring.
C31_VoiceOnlyConnected ==
  [][(VoiceHandled /\ v_rx'.voice /\ ~ctx["B"].is_connected)
       => (writeLog' = writeLog /\ frames' = frames /\ write_idx' = write_idx)]_vars

C31_Witness ==
  /\ v_rx.handled /\ v_rx.voice /\ v_rx.parsed
  /\ ~v_rx.connected /\ ~ctx["B"].is_connected
  /\ writeLog = <<>>

\* C32: a packet built by protocol_send_voice that reaches connected B as it
\* was built passes protocol_parse_packet, and exactly one frame, holding the
\* audio given to protocol_send_voice, is written to B's playback ring.
C32_VoiceArrives ==
  [][(VoiceHandled /\ v_air.from = "A" /\ v_rx'.parsed /\ ctx["B"].is_connected)
       => /\ Len(writeLog') = Len(writeLog) + 1
          /\ v_rx'.samples = v_air.audio]_vars

\* C36: every voice packet carries a sequence number greater than those of
\* the voice packets sent before it.
C36_SeqIncreasing ==
  \A i \in DOMAIN v_seqs : \A j \in DOMAIN v_seqs : i < j => v_seqs[i] < v_seqs[j]

\* C37: no voice packet goes out at a moment when the device is muted or not
\* connected, however the audio task interleaves with the buttons, the slide
\* switch and the main loop.
C37_NoVoiceWhenMuted ==
  \A i \in DOMAIN talk_sent : ~talk_sent[i].is_muted /\ talk_sent[i].is_connected

====
